---------------------------- MODULE Spec2Model ----------------------------
(***************************************************************************)
(* Authentication, session and authorization core of the user-management   *)
(* service: AuthService (Login, Logout, GetCurrentUser), SessionService,    *)
(* ActivityService, PasswordResetService and the User/Session model         *)
(* methods.  Time is counted in minutes; the relational store is the four   *)
(* tables users, sessions, activities and resetEvents.                      *)
(***************************************************************************)
EXTENDS Integers, Sequences, FiniteSets, TLC

\* ------------------------------------------------------------------ bounds
\* The clock stops advancing at MaxTime minutes.
MaxTime == 46
\* GenerateSecureToken is drawn at most MaxTokens times.
MaxTokens == 2
\* The activity table holds at most MaxLog rows.
MaxLog == 3

\* --------------------------------------------------------------- constants
\* UserRole iota values.
RoleAdmin == 0
RoleManager == 1
RoleSalesperson == 2
Roles == {RoleAdmin, RoleManager, RoleSalesperson}

\* Seeded primary keys: admin@example.com, sales1@alsafwanmarine.com and
\* manager@example.com.
AdminID == 18
SalesID == 10
ManagerID == 8
UserIDs == {AdminID, SalesID}

\* 30 * time.Minute, 30 * 24 * time.Hour, 24 * time.Hour and the minimum
\* password length, in minutes and bytes.
SessionTTL == 30
PasswordTTL == 43200
ResetTokenTTL == 1440
MinPasswordLen == 6

\* A nil *uint and a nil *time.Time.
NoUser == 0
NoTime == -1
\* A nil *string token of a reset event.
NoToken == 0

\* Error values returned by the services.
Ok == "ok"
ErrInvalidCredentials == "invalid email or password"
ErrPasswordExpired == "password has expired"
ErrInvalidSession == "invalid session"
ErrInvalidOrExpiredSession == "invalid or expired session"
ErrUserDisabled == "user account is disabled"
ErrInvalidResetToken == "invalid or expired reset token"
ErrWeakPassword == "password must be at least 6 characters long"
ErrForbidden == "Cannot modify this user's status"
ErrInsufficientPermissions == "insufficient permissions"
ErrCurrentPasswordIncorrect == "current password is incorrect"
\* gorm.ErrRecordNotFound, and any other error of the store or of
\* crypto/rand, which the services hand to their caller as it is.
ErrRecordNotFound == "record not found"
ErrInternal == "internal error"
\* What the JSON and the web user controllers answer when CanManageUser
\* fails.
ErrPermissionDenied == "Permission denied"
ErrAccessDenied == "Access denied"
\* The store refusing a row that breaks a unique index.
ErrDuplicateKey == "UNIQUE constraint failed"

\* ------------------------------------------------------------------ inputs
\* Emails are character sequences; the seeded addresses are abbreviated to
\* one letter each.
AdminEmail == <<"a">>
SalesEmail == <<"s">>
RawEmails == {<<"s">>, <<" ", "S">>, <<"z">>}
SeedPassword == "password123"
Passwords == {"password123", "hunter22"}
NewPasswords == {"password123", "hunter22", "short"}
TickSteps == {SessionTTL \div 2, SessionTTL + 1}
Tokens == 1..MaxTokens

VARIABLES
    users,        \* users table: id -> row
    sessions,     \* sessions table: set of rows, token unique
    activities,   \* user_activities table, in insertion order
    resetEvents,  \* password_reset_events table, in primary-key order
    now,          \* wall clock, minutes
    issued,       \* number of calls of GenerateSecureToken
    last,         \* the last call and what it returned to its caller
    tokenLog,     \* per token: whom Login returned it to, when it last
                  \* resolved, and which call destroyed its session
    actor, target, verdict,  \* arguments and result of a permission check
    gen,          \* GenerateStrongPassword: the builder and the shuffle index
    flight,       \* per request goroutine: the call it is in the middle of,
                  \* with the rows it has read
    items,        \* Cache.items: per key the stored *CacheItem
    cacheRun      \* the cache's callers: per goroutine the Get it is in, the
                  \* pass of cleanupExpired, and per key the last Set that
                  \* no Delete or Clear has followed

vars == <<users, sessions, activities, resetEvents, now, issued, last,
          tokenLog, actor, target, verdict, gen, flight, items, cacheRun>>

\* ------------------------------------------------------- models/utils.go
Lower(c) == IF c = "A" THEN "a" ELSE IF c = "S" THEN "s" ELSE IF c = "Z" THEN "z" ELSE c

RECURSIVE TrimLeft(_)
TrimLeft(s) == IF s # <<>> /\ Head(s) = " " THEN TrimLeft(Tail(s)) ELSE s

RECURSIVE TrimRight(_)
TrimRight(s) ==
    IF s # <<>> /\ s[Len(s)] = " " THEN TrimRight(SubSeq(s, 1, Len(s) - 1)) ELSE s

TrimSpace(s) == TrimRight(TrimLeft(s))

ToLower(s) == [i \in 1..Len(s) |-> Lower(s[i])]

normalizeEmail(email) == ToLower(TrimSpace(email))

\* The token GenerateSecureToken returns: 32 fresh random bytes, never one
\* it has returned before.
GenerateSecureToken == issued + 1

ValidatePassword(password) ==
    IF Len(password) < MinPasswordLen THEN ErrWeakPassword ELSE Ok

\* ------------------------------------------------------- models (User)
\* bcrypt.GenerateFromPassword / bcrypt.CompareHashAndPassword: the digest
\* is opaque and verifies exactly the plaintext it was made from.
Hash(password) == [bcrypt |-> password]

\* Mutant: the new expiry is stored but the digest is not.
SetPasswordKeepsDigest(u, password) ==
    [u EXCEPT !.passwordResetAt = now,
              !.passwordExpiresAt = now + PasswordTTL]

SetPassword(u, password) ==
    [u EXCEPT !.digest = Hash(password),
              !.passwordResetAt = now,
              !.passwordExpiresAt = now + PasswordTTL]

CheckPassword(u, password) == u.digest = Hash(password)

\* Mutant: the comparison is the wrong way round.
IsPasswordExpiredReversed(u) ==
    IF u.passwordExpiresAt = NoTime THEN FALSE ELSE now < u.passwordExpiresAt

IsPasswordExpired(u) ==
    IF u.passwordExpiresAt = NoTime THEN FALSE ELSE now > u.passwordExpiresAt

UpdateSignInInfo(u) ==
    [u EXCEPT !.lastSignInAt = u.currentSignInAt,
              !.currentSignInAt = now,
              !.signInCount = u.signInCount + 1]

\* Mutant: a manager manages everyone but admins.
CanManageUserBelowAdmin(u, targetUser) ==
    CASE u.role = RoleAdmin -> TRUE
      [] u.role = RoleManager -> targetUser.role # RoleAdmin
      [] OTHER -> FALSE

CanManageUser(u, targetUser) ==
    CASE u.role = RoleAdmin -> TRUE
      [] u.role = RoleManager -> targetUser.role = RoleSalesperson
      [] OTHER -> FALSE

\* Mutant: the target's role is not looked at.
CanDisableUserAnyRole(u, targetUser) ==
    IF u.id = targetUser.id THEN FALSE
    ELSE CanManageUser(u, targetUser)

CanDisableUser(u, targetUser) ==
    IF u.id = targetUser.id THEN FALSE
    ELSE IF targetUser.role # RoleSalesperson THEN FALSE
    ELSE CanManageUser(u, targetUser)

\* ------------------------------------------------------- models (Session)
\* Mutant: expiry is left to the periodic sweep.
IsExpiredNever(s) == FALSE

IsExpired(s) == now > s.expiresAt

\* Mutant: the expiry is left where it was.
ExtendNothing(s) == s

Extend(s) == [s EXCEPT !.expiresAt = now + SessionTTL]

\* ------------------------------------------------------- ActivityService
LogActivity(log, userID, activityType) ==
    Append(log, [type |-> activityType, userID |-> userID])

\* Mutant: the failed attempt is always logged without a user reference.
LogFailedLoginAnonymous(log, userID) == LogActivity(log, NoUser, "failed_login")

LogFailedLogin(log, userID) ==
    LogActivity(log, userID, "failed_login")
LogLogin(log, u) == LogActivity(log, u.id, "login")
LogLogout(log, u) == LogActivity(log, u.id, "logout")
LogPasswordChange(log, u) == LogActivity(log, u.id, "password_change")
LogUserCRUD(log, performingUser) == LogActivity(log, performingUser.id, "user_crud")

\* ------------------------------------------------------- SessionService
\* Mutant: the session row is given the wrong owner.
CreateSessionWrongOwner(tbl, u, token) ==
    tbl \cup {[token |-> token,
               userID |-> CHOOSE id \in UserIDs : id # u.id,
               expiresAt |-> now + SessionTTL]}

CreateSession(tbl, u, token) ==
    tbl \cup {[token |-> token, userID |-> u.id, expiresAt |-> now + SessionTTL]}

\* Mutant: the lookup leaves out sessions that have expired.
GetSessionByTokenUnexpired(token) ==
    {s \in sessions : s.token = token /\ ~IsExpired(s)}

GetSessionByToken(token) == {s \in sessions : s.token = token}

\* Mutant: the delete matches no row.
DestroySessionNoRow(tbl, token) == tbl

\* Mutant: every session of the token's owner is deleted.
DestroySessionOfOwner(tbl, token) ==
    {s \in tbl : \A t \in tbl : t.token = token => s.userID # t.userID}

DestroySession(tbl, token) == {s \in tbl : s.token # token}

\* db.Where("user_id = ?", userID).Delete(&models.Session{})
SessionsOfOthers(tbl, userID) == {s \in tbl : s.userID # userID}

\* A role no user has, for a call that takes no role.
NoRole == -1

\* The row a call reports in last: its arguments, what it returned (res, user,
\* results), the storage or randomness fault that hit it, the plaintexts it
\* passed to SetPassword and saved, as <<user id, plaintext>> pairs in the
\* order of the saves, the ids whose ManualReset returned no error, for a
\* sweep or a bulk reset the step that failed for each user, and the HTTP
\* status of a handler that answers in JSON.
Call(op, email, pw, token, res, user) ==
    [op |-> op, email |-> email, pw |-> pw, token |-> token, res |-> res,
     user |-> user, role |-> NoRole, newPw |-> "", fault |-> "none",
     saved |-> <<>>, ids |-> <<>>, results |-> {}, succeeded |-> {},
     faults |-> <<>>, status |-> 0]


\* ------------------------------------------------------- initial state
\* Database.Seed: every seeded user is enabled and has the default password,
\* set when the row was seeded, either now or long enough ago that the
\* password has expired.
SeedTimes == {0, 0 - PasswordTTL - 2}

SeedUser(id, email, role, seededAt) ==
    [id |-> id, email |-> email, role |-> role, enabled |-> TRUE,
     digest |-> Hash(SeedPassword),
     lastSignInAt |-> NoTime, currentSignInAt |-> NoTime, signInCount |-> 0,
     passwordResetAt |-> seededAt, passwordExpiresAt |-> seededAt + PasswordTTL]

NoCall == Call("none", <<>>, "", NoToken, Ok, NoUser)
\* GenerateStrongPassword before its first appendRandomChar.
NoPassword == [pc |-> "append", password |-> <<>>, i |-> 0]

\* The goroutines that serve requests and run the background jobs.
Procs == {1, 2}

\* A goroutine between calls, and all of them so.
Idle == [op |-> "idle", token |-> NoToken, userID |-> NoUser, at |-> NoTime,
         session |-> {}, user |-> {}, email |-> <<>>, pw |-> "", ran |-> <<>>]
NoFlight == [p \in Procs |-> Idle]

\* The keys and values the callers of the cache use.
Keys == {"dashboard_stats", "user_list"}
Values == {"a", "b"}

\* No *CacheItem: what Load returns for a key that is not stored.
NoItem == [data |-> "", expiresAt |-> NoTime]
NoItems == [key \in Keys |-> NoItem]

\* A goroutine that is not in a call of the cache.
NoGet == [pc |-> "idle", key |-> "", item |-> NoItem, promised |-> NoItem,
          found |-> FALSE, data |-> ""]
NoPass == [pc |-> "idle", key |-> "", item |-> NoItem, at |-> NoTime]
NoCacheRun == [get |-> [p \in Procs |-> NoGet], cleanup |-> NoPass, set |-> NoItems]
NoCheck == [id |-> NoUser, role |-> RoleSalesperson]

Seed(seededAt) ==
    [id \in UserIDs |->
       IF id = AdminID
       THEN SeedUser(AdminID, normalizeEmail(AdminEmail), RoleAdmin, seededAt)
       ELSE SeedUser(SalesID, normalizeEmail(SalesEmail), RoleSalesperson, seededAt)]

Init ==
    /\ \E seededAt \in SeedTimes : users = Seed(seededAt)
    /\ sessions = {}
    /\ activities = <<>>
    /\ resetEvents = <<>>
    /\ now = 0
    /\ issued = 0
    /\ last = NoCall
    /\ tokenLog = [t \in Tokens |-> [user |-> NoUser, usedAt |-> NoTime, ended |-> "no"]]
    /\ actor = NoCheck
    /\ target = NoCheck
    /\ verdict = [manage |-> FALSE, disable |-> FALSE]
    /\ gen = NoPassword
    /\ flight = NoFlight
    /\ items = NoItems
    /\ cacheRun = NoCacheRun

\* ------------------------------------------------------- AuthService
\* db.Where("email = ?", normalizeEmail(email)).First(&user)
UsersByEmail(email) == {id \in DOMAIN users : users[id].email = normalizeEmail(email)}

\* The step of a call that a fault of the store or of crypto/rand hits.
LoginFaults == {"none", "lookup", "save", "token", "session", "log"}
LogoutFaults == {"none", "lookup", "load", "destroy", "log"}
ResetFaults == {"none", "lookup", "load", "hash", "save", "event", "log"}

\* Mutant: the error of the activity write is returned to the caller.
IgnoreLogErrorReturned(fault, res) == IF fault = "log" THEN ErrInternal ELSE res

\* The services call LogLogin, LogLogout, LogPasswordChange and LogUserCRUD as
\* statements: the error these return is dropped.
IgnoreLogError(fault, res) == res

LoginFails(email, password, userID, fault) ==
    /\ activities' = IF fault = "log" THEN activities
                     ELSE LogFailedLogin(activities, userID)
    /\ last' = [Call("Login", email, password, NoToken, ErrInvalidCredentials, NoUser)
                  EXCEPT !.fault = fault]
    /\ UNCHANGED <<users, sessions, issued, tokenLog>>

LoginUnder(email, password, fault) ==
    /\ IF fault = "lookup"
       THEN /\ last' = [Call("Login", email, password, NoToken, ErrInternal, NoUser)
                          EXCEPT !.fault = fault]
            /\ UNCHANGED <<users, sessions, activities, issued, tokenLog>>
       ELSE IF UsersByEmail(email) = {}
       THEN LoginFails(email, password, NoUser, fault)
       ELSE LET user == users[CHOOSE id \in UsersByEmail(email) : TRUE] IN
            IF ~user.enabled
            THEN LoginFails(email, password, user.id, fault)
            ELSE IF ~CheckPassword(user, password)
            THEN LoginFails(email, password, user.id, fault)
            ELSE IF IsPasswordExpired(user)
            THEN /\ last' = [Call("Login", email, password, NoToken, ErrPasswordExpired,
                                   NoUser) EXCEPT !.fault = fault]
                 /\ UNCHANGED <<users, sessions, activities, issued, tokenLog>>
            ELSE LET signedIn == UpdateSignInInfo(user)
                     token == GenerateSecureToken
                 IN  IF fault = "save"
                     THEN /\ last' = [Call("Login", email, password, NoToken,
                                            ErrInternal, NoUser)
                                        EXCEPT !.fault = fault]
                          /\ UNCHANGED <<users, sessions, activities, issued, tokenLog>>
                     ELSE IF fault \in {"token", "session"}
                     THEN /\ issued < MaxTokens
                          /\ users' = [users EXCEPT ![user.id] = signedIn]
                          /\ issued' = issued + 1
                          /\ last' = [Call("Login", email, password, NoToken,
                                            ErrInternal, NoUser)
                                        EXCEPT !.fault = fault]
                          /\ UNCHANGED <<sessions, activities, tokenLog>>
                     ELSE /\ issued < MaxTokens
                          /\ users' = [users EXCEPT ![user.id] = signedIn]
                          /\ issued' = issued + 1
                          /\ sessions' = CreateSession(sessions, signedIn, token)
                          /\ activities' = IF fault = "log" THEN activities
                                           ELSE LogLogin(activities, signedIn)
                          /\ tokenLog' = [tokenLog EXCEPT ![token].user = signedIn.id,
                                                           ![token].usedAt = now]
                          /\ last' = [Call("Login", email, password, token,
                                            IgnoreLogError(fault, Ok), signedIn.id)
                                        EXCEPT !.fault = fault]
    /\ Len(activities') <= MaxLog
    /\ UNCHANGED <<resetEvents, now, actor, target, verdict, gen, flight,
                   items, cacheRun>>

\* Login when the store and crypto/rand work.
Login(email, password) == LoginUnder(email, password, "none")

LogoutUnder(sessionToken, fault) ==
    /\ IF fault = "lookup"
       THEN /\ last' = [Call("Logout", <<>>, "", sessionToken, ErrInternal, NoUser)
                          EXCEPT !.fault = fault]
            /\ UNCHANGED <<sessions, activities, tokenLog>>
       ELSE IF GetSessionByToken(sessionToken) = {}
       THEN /\ last' = [Call("Logout", <<>>, "", sessionToken, ErrInvalidSession, NoUser)
                          EXCEPT !.fault = fault]
            /\ UNCHANGED <<sessions, activities, tokenLog>>
       ELSE LET session == CHOOSE s \in GetSessionByToken(sessionToken) : TRUE
                user == users[session.userID]
            IN  IF fault \in {"load", "destroy"}
                THEN /\ last' = [Call("Logout", <<>>, "", sessionToken,
                                       ErrInternal, NoUser)
                                   EXCEPT !.fault = fault]
                     /\ UNCHANGED <<sessions, activities, tokenLog>>
                ELSE /\ sessions' = DestroySession(sessions, sessionToken)
                     /\ activities' = IF fault = "log" THEN activities
                                      ELSE LogLogout(activities, user)
                     /\ tokenLog' = [tokenLog EXCEPT ![sessionToken].ended = "logout"]
                     /\ last' = [Call("Logout", <<>>, "", sessionToken,
                                       IgnoreLogError(fault, Ok), user.id)
                                   EXCEPT !.fault = fault]
    /\ Len(activities') <= MaxLog
    /\ UNCHANGED <<users, resetEvents, now, issued, actor, target, verdict, gen, flight,
                   items, cacheRun>>

\* Logout when the store works.
Logout(sessionToken) == LogoutUnder(sessionToken, "none")

\* Mutant: the session of a disabled user is rejected but left in the table.
GetCurrentUserKeepsRow(sessionToken) ==
    /\ IF \/ GetSessionByToken(sessionToken) = {}
          \/ \E s \in GetSessionByToken(sessionToken) : IsExpired(s)
       THEN /\ last' = Call("GetCurrentUser", <<>>, "", sessionToken,
                            ErrInvalidOrExpiredSession, NoUser)
            /\ UNCHANGED <<sessions, tokenLog>>
       ELSE LET session == CHOOSE s \in GetSessionByToken(sessionToken) : TRUE
                user == users[session.userID]
            IN  IF ~user.enabled
                THEN /\ sessions' = sessions
                     /\ tokenLog' = [tokenLog EXCEPT ![sessionToken].ended = "disabled"]
                     /\ last' = Call("GetCurrentUser", <<>>, "", sessionToken,
                                     ErrUserDisabled, NoUser)
                ELSE /\ sessions' = (sessions \ {session}) \cup {Extend(session)}
                     /\ tokenLog' = [tokenLog EXCEPT ![sessionToken].usedAt = now]
                     /\ last' = Call("GetCurrentUser", <<>>, "", sessionToken, Ok, user.id)
    /\ UNCHANGED <<users, activities, resetEvents, now, issued, actor, target, verdict, gen, flight,
                   items, cacheRun>>

GetCurrentUser(sessionToken) ==
    /\ IF \/ GetSessionByToken(sessionToken) = {}
          \/ \E s \in GetSessionByToken(sessionToken) : IsExpired(s)
       THEN /\ last' = Call("GetCurrentUser", <<>>, "", sessionToken,
                            ErrInvalidOrExpiredSession, NoUser)
            /\ UNCHANGED <<sessions, tokenLog>>
       ELSE LET session == CHOOSE s \in GetSessionByToken(sessionToken) : TRUE
                user == users[session.userID]
            IN  IF ~user.enabled
                THEN /\ sessions' = DestroySession(sessions, sessionToken)
                     /\ tokenLog' = [tokenLog EXCEPT ![sessionToken].ended = "disabled"]
                     /\ last' = Call("GetCurrentUser", <<>>, "", sessionToken,
                                     ErrUserDisabled, NoUser)
                ELSE /\ sessions' = (sessions \ {session}) \cup {Extend(session)}
                     /\ tokenLog' = [tokenLog EXCEPT ![sessionToken].usedAt = now]
                     /\ last' = Call("GetCurrentUser", <<>>, "", sessionToken, Ok, user.id)
    /\ UNCHANGED <<users, activities, resetEvents, now, issued, actor, target, verdict, gen, flight,
                   items, cacheRun>>

\* ------------------------------------------------------- SessionService
CleanupExpiredSessions ==
    /\ sessions' = {s \in sessions : ~(s.expiresAt < now)}
    /\ last' = Call("CleanupExpiredSessions", <<>>, "", NoToken, Ok, NoUser)
    /\ UNCHANGED <<users, activities, resetEvents, now, issued, tokenLog,
                   actor, target, verdict, gen, flight,
                   items, cacheRun>>

\* ------------------------------------------------------- PasswordResetService
CreateResetEvent(userID, adminID, resetType) ==
    LET token == GenerateSecureToken
        resetEvent == [userID |-> userID, adminID |-> adminID, success |-> FALSE,
                       resetType |-> resetType, token |-> token,
                       expiresAt |-> now + ResetTokenTTL]
    IN  /\ issued < MaxTokens
        /\ issued' = issued + 1
        /\ resetEvents' = Append(resetEvents, resetEvent)
        /\ last' = Call("CreateResetEvent", <<>>, "", token, Ok, userID)
        /\ UNCHANGED <<users, sessions, activities, now, tokenLog, actor, target, verdict, gen, flight,
                   items, cacheRun>>

\* Mutant: the lookup does not compare expires_at with the clock.
ResetEventsByTokenAnyAge(token) ==
    {i \in DOMAIN resetEvents : resetEvents[i].token = token}

\* db.Where("token = ? AND expires_at > ?", token, time.Now()).First(&resetEvent)
ResetEventsByToken(token) ==
    {i \in DOMAIN resetEvents : /\ resetEvents[i].token = token
                                /\ resetEvents[i].expiresAt # NoTime
                                /\ resetEvents[i].expiresAt > now}

ResetPasswordWithTokenUnder(token, newPassword, fault) ==
    LET call == [Call("ResetPasswordWithToken", <<>>, newPassword, token, Ok, NoUser)
                   EXCEPT !.fault = fault]
    IN
    /\ IF fault = "lookup"
       THEN /\ last' = [call EXCEPT !.res = ErrInternal]
            /\ UNCHANGED <<users, resetEvents, activities>>
       ELSE IF ResetEventsByToken(token) = {}
       THEN /\ last' = [call EXCEPT !.res = ErrInvalidResetToken]
            /\ UNCHANGED <<users, resetEvents, activities>>
       ELSE LET i == CHOOSE j \in ResetEventsByToken(token) :
                        \A k \in ResetEventsByToken(token) : j <= k
                user == users[resetEvents[i].userID]
            IN  IF fault = "load"
                THEN /\ last' = [call EXCEPT !.res = ErrInternal]
                     /\ UNCHANGED <<users, resetEvents, activities>>
                ELSE IF ValidatePassword(newPassword) # Ok
                THEN /\ last' = [call EXCEPT !.res = ValidatePassword(newPassword)]
                     /\ UNCHANGED <<users, resetEvents, activities>>
                ELSE IF fault \in {"hash", "save"}
                THEN /\ last' = [call EXCEPT !.res = ErrInternal]
                     /\ UNCHANGED <<users, resetEvents, activities>>
                ELSE IF fault = "event"
                THEN /\ users' = [users EXCEPT ![user.id] = SetPassword(user, newPassword)]
                     /\ last' = [call EXCEPT !.res = ErrInternal,
                                             !.saved = << <<user.id, newPassword>> >>]
                     /\ UNCHANGED <<resetEvents, activities>>
                ELSE /\ users' = [users EXCEPT ![user.id] = SetPassword(user, newPassword)]
                     /\ resetEvents' = [resetEvents EXCEPT ![i].success = TRUE]
                     /\ activities' = IF fault = "log" THEN activities
                                      ELSE LogPasswordChange(activities, user)
                     /\ last' = [call EXCEPT !.res = IgnoreLogError(fault, Ok),
                                             !.user = user.id,
                                             !.saved = << <<user.id, newPassword>> >>]
    /\ Len(activities') <= MaxLog
    /\ UNCHANGED <<sessions, now, issued, tokenLog, actor, target, verdict, gen, flight,
                   items, cacheRun>>

\* ResetPasswordWithToken when the store works.
ResetPasswordWithToken(token, newPassword) ==
    ResetPasswordWithTokenUnder(token, newPassword, "none")

\* ------------------------------------------------------- controllers
\* The handler runs for a current user the auth middleware has resolved,
\* hence one that was enabled when the request came in.
\* Mutant: disabling a user deletes the user's sessions.
HandleToggleStatusRevokes(currentUserID, userID) ==
    /\ users[currentUserID].enabled
    /\ IF ~CanDisableUser(users[currentUserID], users[userID])
       THEN /\ last' = Call("HandleToggleStatus", <<>>, "", NoToken, ErrForbidden, userID)
            /\ UNCHANGED <<users, activities, sessions>>
       ELSE /\ users' = [users EXCEPT ![userID].enabled = ~users[userID].enabled]
            /\ sessions' = IF users[userID].enabled
                           THEN SessionsOfOthers(sessions, userID) ELSE sessions
            /\ activities' = LogUserCRUD(activities, users[currentUserID])
            /\ last' = Call("HandleToggleStatus", <<>>, "", NoToken, Ok, userID)
    /\ Len(activities') <= MaxLog
    /\ UNCHANGED <<resetEvents, now, issued, tokenLog, actor, target, verdict, gen, flight,
                   items, cacheRun>>

HandleToggleStatus(currentUserID, userID) ==
    /\ users[currentUserID].enabled
    /\ IF ~CanDisableUser(users[currentUserID], users[userID])
       THEN /\ last' = Call("HandleToggleStatus", <<>>, "", NoToken, ErrForbidden, userID)
            /\ UNCHANGED <<users, activities>>
       ELSE /\ users' = [users EXCEPT ![userID].enabled = ~users[userID].enabled]
            /\ activities' = LogUserCRUD(activities, users[currentUserID])
            /\ last' = Call("HandleToggleStatus", <<>>, "", NoToken, Ok, userID)
    /\ Len(activities') <= MaxLog
    /\ UNCHANGED <<sessions, resetEvents, now, issued, tokenLog, actor, target, verdict, gen, flight,
                   items, cacheRun>>

\* ------------------------------------------------------- the clock
Tick(d) ==
    /\ now + d <= MaxTime
    /\ now' = now + d
    /\ last' = Call("Tick", <<>>, "", NoToken, Ok, NoUser)
    /\ UNCHANGED <<users, sessions, activities, resetEvents, issued, tokenLog,
                   actor, target, verdict, gen, flight,
                   items, cacheRun>>

Next ==
    \/ \E email \in RawEmails, password \in Passwords : Login(email, password)
    \/ \E token \in Tokens : Logout(token)
    \/ \E token \in Tokens : GetCurrentUser(token)
    \/ CleanupExpiredSessions
    \/ \E a \in UserIDs, t \in UserIDs : HandleToggleStatus(a, t)
    \/ \E d \in TickSteps : Tick(d)

Spec == Init /\ [][Next]_vars

\* The permission predicates, applied to every pair of an acting and a
\* target user: the two structs a handler holds, the current user as the
\* middleware resolved it and the target as just loaded.
CheckedUsers == [id : {AdminID, ManagerID, SalesID}, role : Roles]

InitAuthz ==
    /\ users = Seed(0)
    /\ sessions = {}
    /\ activities = <<>>
    /\ resetEvents = <<>>
    /\ now = 0
    /\ issued = 0
    /\ last = NoCall
    /\ tokenLog = [t \in Tokens |-> [user |-> NoUser, usedAt |-> NoTime, ended |-> "no"]]
    /\ actor \in CheckedUsers
    /\ target \in CheckedUsers
    /\ verdict = [manage |-> FALSE, disable |-> FALSE]
    /\ gen = NoPassword
    /\ flight = NoFlight
    /\ items = NoItems
    /\ cacheRun = NoCacheRun

Authorize ==
    /\ last.op # "Authorize"
    /\ verdict' = [manage |-> CanManageUser(actor, target),
                   disable |-> CanDisableUser(actor, target)]
    /\ last' = Call("Authorize", <<>>, "", NoToken, Ok, actor.id)
    /\ UNCHANGED <<users, sessions, activities, resetEvents, now, issued, tokenLog,
                   actor, target, gen, flight,
                   items, cacheRun>>

NextAuthz == Authorize

SpecAuthz == InitAuthz /\ [][NextAuthz]_vars

\* The self-service reset flow: request a token, redeem it, let time pass.
NextReset ==
    \/ \E u \in UserIDs : CreateResetEvent(u, NoUser, "manual")
    \/ \E token \in Tokens, pw \in NewPasswords : ResetPasswordWithToken(token, pw)
    \/ \E d \in TickSteps : Tick(d)

SpecReset == Init /\ [][NextReset]_vars

\* ------------------------------------------------------- AuthService (roles)
\* user.Role != requiredRole rejects.
ExactRole(role, requiredRole) == role = requiredRole

\* Mutant: the comparison of the two roles is the wrong way round.
RoleOrHigherReversed(role, minRole) == ~(role < minRole)

\* int(user.Role) > int(minRole) rejects.
RoleOrHigher(role, minRole) == ~(role > minRole)

\* RequireAuth, which is GetCurrentUser, followed by the caller's test of the
\* resolved user's role: permits maps a user's role to the test's outcome.
RequireAuthThen(op, sessionToken, role, permits) ==
    /\ IF \/ GetSessionByToken(sessionToken) = {}
          \/ \E s \in GetSessionByToken(sessionToken) : IsExpired(s)
       THEN /\ last' = [Call(op, <<>>, "", sessionToken,
                             ErrInvalidOrExpiredSession, NoUser) EXCEPT !.role = role]
            /\ UNCHANGED <<sessions, tokenLog>>
       ELSE LET session == CHOOSE s \in GetSessionByToken(sessionToken) : TRUE
                user == users[session.userID]
            IN  IF ~user.enabled
                THEN /\ sessions' = DestroySession(sessions, sessionToken)
                     /\ tokenLog' = [tokenLog EXCEPT ![sessionToken].ended = "disabled"]
                     /\ last' = [Call(op, <<>>, "", sessionToken,
                                      ErrUserDisabled, NoUser) EXCEPT !.role = role]
                ELSE /\ sessions' = (sessions \ {session}) \cup {Extend(session)}
                     /\ tokenLog' = [tokenLog EXCEPT ![sessionToken].usedAt = now]
                     /\ last' = IF permits[user.role]
                                THEN [Call(op, <<>>, "", sessionToken, Ok, user.id)
                                        EXCEPT !.role = role]
                                ELSE [Call(op, <<>>, "", sessionToken,
                                           ErrInsufficientPermissions, NoUser)
                                        EXCEPT !.role = role]
    /\ UNCHANGED <<users, activities, resetEvents, now, issued, actor, target, verdict, gen, flight,
                   items, cacheRun>>

RequireRole(sessionToken, requiredRole) ==
    RequireAuthThen("RequireRole", sessionToken, requiredRole,
                    [r \in Roles |-> ExactRole(r, requiredRole)])

RequireRoleOrHigher(sessionToken, minRole) ==
    RequireAuthThen("RequireRoleOrHigher", sessionToken, minRole,
                    [r \in Roles |-> RoleOrHigher(r, minRole)])

\* Sign-ins of the admin and of the salesperson, role checks on their
\* sessions, the admin disabling and enabling the salesperson, and the clock.
NextRoles ==
    \/ \E email \in {AdminEmail, SalesEmail} : Login(email, SeedPassword)
    \/ \E token \in Tokens, r \in Roles : RequireRole(token, r)
    \/ \E token \in Tokens, m \in Roles : RequireRoleOrHigher(token, m)
    \/ HandleToggleStatus(AdminID, SalesID)
    \/ \E d \in TickSteps : Tick(d)

SpecRoles == Init /\ [][NextRoles]_vars

\* ------------------------------------------------------- password changes
\* The reset events hold at most MaxEvents rows.
MaxEvents == 2

\* A primary key no user row has.
MissingID == 99

\* Two of the strings GenerateStrongPassword can return.
StrongPasswords == {"Aa0!Aa0!", "0!aA0!aA"}

\* The step of a call that a fault of the store or of crypto/rand hits.
ChangePasswordFaults == {"none", "load", "hash", "save", "log"}
ManualResetFaults == {"none", "load", "generate", "hash", "save", "event", "log"}

\* The tables a password reset reads and writes.
Tables == [users |-> users, resetEvents |-> resetEvents, activities |-> activities]

\* Mutant: the new password is accepted before the current one is checked.
ChangePasswordValidatesFirst(userID, currentPassword, newPassword, fault) ==
    LET user == users[userID]
        call == [Call("ChangePassword", <<>>, currentPassword, NoToken, Ok, userID)
                   EXCEPT !.newPw = newPassword, !.fault = fault]
    IN  /\ IF fault = "load"
           THEN /\ last' = [call EXCEPT !.res = ErrInternal]
                /\ UNCHANGED <<users, activities>>
           ELSE IF ValidatePassword(newPassword) # Ok
           THEN /\ last' = [call EXCEPT !.res = ValidatePassword(newPassword)]
                /\ UNCHANGED <<users, activities>>
           ELSE IF ~CheckPassword(user, currentPassword)
           THEN /\ last' = [call EXCEPT !.res = ErrCurrentPasswordIncorrect]
                /\ UNCHANGED <<users, activities>>
           ELSE IF fault \in {"hash", "save"}
           THEN /\ last' = [call EXCEPT !.res = ErrInternal]
                /\ UNCHANGED <<users, activities>>
           ELSE /\ users' = [users EXCEPT ![userID] = SetPassword(user, newPassword)]
                /\ activities' = IF fault = "log" THEN activities
                                 ELSE LogPasswordChange(activities, user)
                /\ last' = [call EXCEPT !.saved = << <<userID, newPassword>> >>]
        /\ Len(activities') <= MaxLog
        /\ UNCHANGED <<sessions, resetEvents, now, issued, tokenLog, actor, target,
                       verdict, gen, flight,
                   items, cacheRun>>

ChangePassword(userID, currentPassword, newPassword, fault) ==
    LET user == users[userID]
        call == [Call("ChangePassword", <<>>, currentPassword, NoToken, Ok, userID)
                   EXCEPT !.newPw = newPassword, !.fault = fault]
    IN  /\ IF fault = "load"
           THEN /\ last' = [call EXCEPT !.res = ErrInternal]
                /\ UNCHANGED <<users, activities>>
           ELSE IF ~CheckPassword(user, currentPassword)
           THEN /\ last' = [call EXCEPT !.res = ErrCurrentPasswordIncorrect]
                /\ UNCHANGED <<users, activities>>
           ELSE IF ValidatePassword(newPassword) # Ok
           THEN /\ last' = [call EXCEPT !.res = ValidatePassword(newPassword)]
                /\ UNCHANGED <<users, activities>>
           ELSE IF fault \in {"hash", "save"}
           THEN /\ last' = [call EXCEPT !.res = ErrInternal]
                /\ UNCHANGED <<users, activities>>
           ELSE /\ users' = [users EXCEPT ![userID] = SetPassword(user, newPassword)]
                /\ activities' = IF fault = "log" THEN activities
                                 ELSE LogPasswordChange(activities, user)
                /\ last' = [call EXCEPT !.res = IgnoreLogError(fault, Ok),
                                        !.saved = << <<userID, newPassword>> >>]
        /\ Len(activities') <= MaxLog
        /\ UNCHANGED <<sessions, resetEvents, now, issued, tokenLog, actor, target,
                       verdict, gen, flight,
                   items, cacheRun>>

\* Mutant: the activity is attributed to the user whose password was reset.
ManualResetOnLogsTarget(db, userID, adminID, newPassword, fault) ==
    LET failed(err) == [db |-> db, res |-> err, pw |-> "", saved |-> <<>>]
    IN  IF userID \notin DOMAIN db.users THEN failed(ErrRecordNotFound)
        ELSE IF fault \in {"load", "generate", "hash", "save"} THEN failed(ErrInternal)
        ELSE LET user == SetPassword(db.users[userID], newPassword)
                 resetEvent == [userID |-> userID, adminID |-> adminID,
                                success |-> TRUE, resetType |-> "manual",
                                token |-> NoToken, expiresAt |-> NoTime]
                 db1 == [db EXCEPT !.users[userID] = user]
                 db2 == [db1 EXCEPT !.resetEvents = Append(@, resetEvent)]
                 db3 == IF fault = "log" THEN db2
                        ELSE [db2 EXCEPT !.activities = LogUserCRUD(@, db2.users[userID])]
             IN  IF fault = "event"
                 THEN [db |-> db1, res |-> ErrInternal, pw |-> "",
                       saved |-> << <<userID, newPassword>> >>]
                 ELSE [db |-> db3, res |-> IgnoreLogError(fault, Ok), pw |-> newPassword,
                       saved |-> << <<userID, newPassword>> >>]

\* ManualReset on the tables db, with newPassword the string
\* GenerateStrongPassword returns: the tables it leaves, the error and the
\* password it returns, and what it saved.
ManualResetOn(db, userID, adminID, newPassword, fault) ==
    LET failed(err) == [db |-> db, res |-> err, pw |-> "", saved |-> <<>>]
    IN  IF userID \notin DOMAIN db.users THEN failed(ErrRecordNotFound)
        ELSE IF fault \in {"load", "generate", "hash", "save"} THEN failed(ErrInternal)
        ELSE LET user == SetPassword(db.users[userID], newPassword)
                 resetEvent == [userID |-> userID, adminID |-> adminID,
                                success |-> TRUE, resetType |-> "manual",
                                token |-> NoToken, expiresAt |-> NoTime]
                 db1 == [db EXCEPT !.users[userID] = user]
                 db2 == [db1 EXCEPT !.resetEvents = Append(@, resetEvent)]
                 db3 == IF fault = "log" THEN db2
                        ELSE [db2 EXCEPT !.activities = LogUserCRUD(@, db2.users[adminID])]
             IN  IF fault = "event"
                 THEN [db |-> db1, res |-> ErrInternal, pw |-> "",
                       saved |-> << <<userID, newPassword>> >>]
                 ELSE [db |-> db3, res |-> IgnoreLogError(fault, Ok), pw |-> newPassword,
                       saved |-> << <<userID, newPassword>> >>]

ManualReset(userID, adminID, newPassword, fault) ==
    LET r == ManualResetOn(Tables, userID, adminID, newPassword, fault)
    IN  /\ users' = r.db.users
        /\ resetEvents' = r.db.resetEvents
        /\ activities' = r.db.activities
        /\ last' = [Call("ManualReset", <<>>, "", NoToken, r.res, userID)
                      EXCEPT !.newPw = r.pw, !.fault = fault, !.saved = r.saved]
        /\ Len(activities') <= MaxLog
        /\ Len(resetEvents') <= MaxEvents
        /\ UNCHANGED <<sessions, now, issued, tokenLog, actor, target, verdict, gen, flight,
                   items, cacheRun>>

\* ------------------------------------------------------- the sweeps
\* 10 * 24 * time.Hour.
InactivityTTL == 14400

SweepFaults == {"none", "generate", "hash", "save", "event"}

\* What happens for each user a sweep processes: the string
\* GenerateStrongPassword returns and the step that fails.
SweepDraws ==
    {[id \in UserIDs |-> [pw |-> IF id = SalesID THEN "Aa0!Aa0!" ELSE "0!aA0!aA",
                          fault |-> f[id]]] : f \in [UserIDs -> SweepFaults]}

\* Mutant: the first user that fails ends the loop.
RECURSIVE SweepOnStopsAtFailure(_, _, _, _)
SweepOnStopsAtFailure(db, selected, draw, resetType) ==
    IF selected = {} THEN [db |-> db, saved |-> <<>>]
    ELSE LET id == CHOOSE x \in selected : \A y \in selected : x <= y
             user == SetPassword(db.users[id], draw[id].pw)
             resetEvent == [userID |-> id, adminID |-> NoUser, success |-> TRUE,
                            resetType |-> resetType, token |-> NoToken,
                            expiresAt |-> NoTime]
             db1 == [db EXCEPT !.users[id] = user]
             db2 == IF draw[id].fault = "event" THEN db1
                    ELSE [db1 EXCEPT !.resetEvents = Append(@, resetEvent)]
         IN  IF draw[id].fault \in {"generate", "hash", "save"}
             THEN [db |-> db, saved |-> <<>>]
             ELSE LET rest == SweepOnStopsAtFailure(db2, selected \ {id}, draw, resetType)
                  IN  [db |-> rest.db,
                       saved |-> << <<id, draw[id].pw>> >> \o rest.saved]

\* The loop over the selected users, in primary-key order: the tables it
\* leaves and what it saved.
RECURSIVE SweepOn(_, _, _, _)
SweepOn(db, selected, draw, resetType) ==
    IF selected = {} THEN [db |-> db, saved |-> <<>>]
    ELSE LET id == CHOOSE x \in selected : \A y \in selected : x <= y
             user == SetPassword(db.users[id], draw[id].pw)
             resetEvent == [userID |-> id, adminID |-> NoUser, success |-> TRUE,
                            resetType |-> resetType, token |-> NoToken,
                            expiresAt |-> NoTime]
             db1 == [db EXCEPT !.users[id] = user]
             db2 == IF draw[id].fault = "event" THEN db1
                    ELSE [db1 EXCEPT !.resetEvents = Append(@, resetEvent)]
         IN  IF draw[id].fault \in {"generate", "hash", "save"}
             THEN SweepOn(db, selected \ {id}, draw, resetType)
             ELSE LET rest == SweepOn(db2, selected \ {id}, draw, resetType)
                  IN  [db |-> rest.db,
                       saved |-> << <<id, draw[id].pw>> >> \o rest.saved]

\* Mutant: the sessions of the users that were reset are deleted.
SweepRevokesSessions(op, selected, draw, queryFails, resetType) ==
    LET r == IF queryFails THEN [db |-> Tables, saved |-> <<>>]
             ELSE SweepOn(Tables, selected, draw, resetType)
    IN  /\ users' = r.db.users
        /\ resetEvents' = r.db.resetEvents
        /\ sessions' = {s \in sessions :
                          \A i \in DOMAIN r.saved : r.saved[i][1] # s.userID}
        /\ last' = [Call(op, <<>>, "", NoToken,
                         IF queryFails THEN ErrInternal ELSE Ok, NoUser)
                      EXCEPT !.saved = r.saved,
                             !.fault = IF queryFails THEN "query" ELSE "none",
                             !.faults = [id \in selected |-> draw[id].fault]]
        /\ Len(resetEvents') <= MaxEvents
        /\ UNCHANGED <<activities, now, issued, tokenLog, actor, target,
                       verdict, gen, flight,
                   items, cacheRun>>

Sweep(op, selected, draw, queryFails, resetType) ==
    LET r == IF queryFails THEN [db |-> Tables, saved |-> <<>>]
             ELSE SweepOn(Tables, selected, draw, resetType)
    IN  /\ users' = r.db.users
        /\ resetEvents' = r.db.resetEvents
        /\ last' = [Call(op, <<>>, "", NoToken,
                         IF queryFails THEN ErrInternal ELSE Ok, NoUser)
                      EXCEPT !.saved = r.saved,
                             !.fault = IF queryFails THEN "query" ELSE "none",
                             !.faults = [id \in selected |-> draw[id].fault]]
        /\ Len(resetEvents') <= MaxEvents
        /\ UNCHANGED <<sessions, activities, now, issued, tokenLog, actor, target,
                       verdict, gen, flight,
                   items, cacheRun>>

\* Mutant: the sweep selects every user that has an expiry.
ExpiredPasswordUsersAll ==
    {id \in UserIDs : users[id].passwordExpiresAt # NoTime}

\* Where("password_expires_at IS NOT NULL AND password_expires_at < ?", now)
ExpiredPasswordUsers ==
    {id \in UserIDs : /\ users[id].passwordExpiresAt # NoTime
                      /\ users[id].passwordExpiresAt < now}

\* Mutant: a user whose password was replaced in the last ten days is left out.
InactiveUsersNotJustReset ==
    {id \in UserIDs : /\ users[id].lastSignInAt # NoTime
                      /\ users[id].lastSignInAt < now - InactivityTTL
                      /\ users[id].passwordResetAt < now - InactivityTTL}

\* Where("last_sign_in_at IS NOT NULL AND last_sign_in_at < ?", tenDaysAgo)
InactiveUsers ==
    {id \in UserIDs : /\ users[id].lastSignInAt # NoTime
                      /\ users[id].lastSignInAt < now - InactivityTTL}

AutoResetExpiredPasswords(draw, queryFails) ==
    Sweep("AutoResetExpiredPasswords", ExpiredPasswordUsers, draw, queryFails,
          "automatic_expiry")

AutoResetInactiveUsers(draw, queryFails) ==
    Sweep("AutoResetInactiveUsers", InactiveUsers, draw, queryFails,
          "automatic_inactivity")

\* ------------------------------------------------------- bulk reset
\* A request names at most MaxBulk ids.
MaxBulk == 2

BulkFaults == {"none", "save", "event"}

\* One entry per id of the request: the id, and for its ManualReset the
\* generated password (the two strings in turn) and the step that fails.
BulkCalls ==
    UNION {{[i \in 1..n |->
               [userID |-> ids[i],
                pw |-> IF i % 2 = 1 THEN "Aa0!Aa0!" ELSE "0!aA0!aA",
                fault |-> faults[i]]] :
             ids \in [1..n -> {SalesID, MissingID}],
             faults \in [1..n -> BulkFaults]} : n \in 1..MaxBulk}

\* The loop over userIDs: the tables it leaves, the map it returns (as
\* <<id, password>> pairs), what it saved, and the ids whose ManualReset
\* returned no error.
RECURSIVE BulkOn(_, _, _, _)
BulkOn(db, calls, adminID, results) ==
    IF calls = <<>>
    THEN [db |-> db, results |-> results, saved |-> <<>>, succeeded |-> {}]
    ELSE LET c == Head(calls)
             r == ManualResetOn(db, c.userID, adminID, c.pw, c.fault)
             rest == BulkOn(r.db, Tail(calls), adminID,
                            IF r.res # Ok THEN results
                            ELSE {x \in results : x[1] # c.userID}
                                   \cup {<<c.userID, r.pw>>})
         IN  [rest EXCEPT !.saved = r.saved \o @,
                          !.succeeded = (IF r.res = Ok THEN {c.userID} ELSE {}) \cup @]

BulkResetPasswords(calls, adminID) ==
    LET r == BulkOn(Tables, calls, adminID, {})
    IN  /\ users' = r.db.users
        /\ resetEvents' = r.db.resetEvents
        /\ activities' = r.db.activities
        /\ last' = [Call("BulkResetPasswords", <<>>, "", NoToken, Ok, adminID)
                      EXCEPT !.ids = [i \in 1..Len(calls) |-> calls[i].userID],
                             !.results = r.results, !.saved = r.saved,
                             !.succeeded = r.succeeded,
                             !.faults = [i \in 1..Len(calls) |-> calls[i].fault]]
        /\ Len(activities') <= MaxLog
        /\ Len(resetEvents') <= MaxEvents
        /\ UNCHANGED <<sessions, now, issued, tokenLog, actor, target, verdict, gen, flight,
                   items, cacheRun>>

\* ------------------------------------------------------- password life cycle
\* A user who signed in twice, more than ten days ago.
SignedInLongAgo(u) ==
    [u EXCEPT !.lastSignInAt = 0 - InactivityTTL - 2,
              !.currentSignInAt = 0 - InactivityTTL - 1,
              !.signInCount = 2]

\* Passwords set long enough ago to have expired, or to expire within the
\* first session.
PasswordSeedTimes == {0 - PasswordTTL - 2, 0 - PasswordTTL + SessionTTL \div 2}

\* The seeded users, with passwords expired or about to expire, who never
\* signed in or last did so long ago.
InitPasswords ==
    /\ \E seededAt \in PasswordSeedTimes, inactive \in BOOLEAN :
         users = [id \in UserIDs |-> IF inactive THEN SignedInLongAgo(Seed(seededAt)[id])
                                     ELSE Seed(seededAt)[id]]
    /\ sessions = {}
    /\ activities = <<>>
    /\ resetEvents = <<>>
    /\ now = 0
    /\ issued = 0
    /\ last = NoCall
    /\ tokenLog = [t \in Tokens |-> [user |-> NoUser, usedAt |-> NoTime, ended |-> "no"]]
    /\ actor = NoCheck
    /\ target = NoCheck
    /\ verdict = [manage |-> FALSE, disable |-> FALSE]
    /\ gen = NoPassword
    /\ flight = NoFlight
    /\ items = NoItems
    /\ cacheRun = NoCacheRun

\* Every plaintext a call can present or set.
AllPasswords == NewPasswords \cup StrongPasswords

\* A sweep in which nothing fails, and a request to reset the salesperson.
CleanDraws == {[id \in UserIDs |-> [pw |-> p, fault |-> "none"]] : p \in {"Aa0!Aa0!"}}
CleanCalls == {<<[userID |-> SalesID, pw |-> p, fault |-> "none"]>> : p \in {"0!aA0!aA"}}

\* The activity and reset-event tables together hold at most MaxLog rows.
FewRows == Len(activities) + Len(resetEvents) <= MaxLog

\* The salesperson signs in, changes and resets the password; the admin
\* resets it; the hourly sweeps run.
NextPassword ==
    \/ \E password \in Passwords : Login(SalesEmail, password) /\ FewRows'
    \/ \E cur \in Passwords : ChangePassword(SalesID, cur, "hunter22", "none") /\ FewRows'
    \/ CreateResetEvent(SalesID, NoUser, "manual") /\ FewRows'
    \/ \E token \in Tokens : ResetPasswordWithToken(token, SeedPassword) /\ FewRows'
    \/ \E pw \in StrongPasswords : ManualReset(SalesID, AdminID, pw, "none") /\ FewRows'
    \/ \E draw \in CleanDraws : AutoResetExpiredPasswords(draw, FALSE) /\ FewRows'
    \/ \E draw \in CleanDraws : AutoResetInactiveUsers(draw, FALSE) /\ FewRows'
    \/ \E calls \in CleanCalls : BulkResetPasswords(calls, AdminID) /\ FewRows'
    \/ Tick(SessionTTL)

SpecPassword == InitPasswords /\ [][NextPassword]_vars

\* The salesperson signs in and changes the password, with every fault the
\* call can meet, as time passes.
NextChange ==
    \/ \E password \in Passwords : Login(SalesEmail, password)
    \/ \E cur \in Passwords, new \in NewPasswords, fault \in ChangePasswordFaults :
         ChangePassword(SalesID, cur, new, fault)
    \/ Tick(SessionTTL + 1)

SpecChange == Init /\ [][NextChange]_vars

\* ------------------------------------------------------- GenerateStrongPassword
\* The four alphabets, each abridged to its first character.
upperChars == <<"A">>
lowerChars == <<"a">>
numberChars == <<"0">>
specialChars == <<"!">>
allChars == upperChars \o lowerChars \o numberChars \o specialChars

\* The password has four required and four free characters.
RequiredChars == 4
FreeChars == 4

\* Mutant: the symbol is not among the required characters.
CharsetAtNoSymbol(k) ==
    CASE k = 0 -> upperChars
      [] k = 1 -> lowerChars
      [] k = 2 -> numberChars
      [] OTHER -> allChars

\* The alphabet of the call of appendRandomChar that writes byte k.
CharsetAt(k) ==
    CASE k = 0 -> upperChars
      [] k = 1 -> lowerChars
      [] k = 2 -> numberChars
      [] k = 3 -> specialChars
      [] OTHER -> allChars

GenCall(res) == Call("GenerateStrongPassword", <<>>, "", NoToken, res, NoUser)

\* appendRandomChar(charset) with rand.Int returning n.
appendRandomChar(n) ==
    LET charset == CharsetAt(Len(gen.password))
        written == Append(gen.password, charset[n + 1])
    IN  /\ gen.pc = "append"
        /\ n < Len(charset)
        /\ gen' = IF Len(written) = RequiredChars + FreeChars
                  THEN [pc |-> "shuffle", password |-> written, i |-> Len(written) - 1]
                  ELSE [gen EXCEPT !.password = written]
        /\ last' = GenCall(Ok)
        /\ UNCHANGED <<users, sessions, activities, resetEvents, now, issued, tokenLog,
                       actor, target, verdict, flight,
                   items, cacheRun>>

\* One round of the shuffle loop, rand.Int returning j; the string is
\* returned when i reaches 0.
ShuffleStep(j) ==
    LET result == gen.password
        i == gen.i
    IN  /\ gen.pc = "shuffle"
        /\ j <= i
        /\ gen' = [pc |-> IF i - 1 > 0 THEN "shuffle" ELSE "done",
                   password |-> [result EXCEPT ![i + 1] = result[j + 1],
                                               ![j + 1] = result[i + 1]],
                   i |-> i - 1]
        /\ last' = GenCall(Ok)
        /\ UNCHANGED <<users, sessions, activities, resetEvents, now, issued, tokenLog,
                       actor, target, verdict, flight,
                   items, cacheRun>>

\* rand.Int fails: the call returns "" and the error.
RandFails ==
    /\ gen.pc \in {"append", "shuffle"}
    /\ gen' = [pc |-> "failed", password |-> <<>>, i |-> 0]
    /\ last' = GenCall(ErrInternal)
    /\ UNCHANGED <<users, sessions, activities, resetEvents, now, issued, tokenLog,
                   actor, target, verdict, flight,
                   items, cacheRun>>

NextGenerate ==
    \/ \E n \in 0..(Len(allChars) - 1) : appendRandomChar(n)
    \/ \E j \in 0..(RequiredChars + FreeChars - 1) : ShuffleStep(j)
    \/ RandFails

SpecGenerate == Init /\ [][NextGenerate]_vars

\* The hourly sweeps, with every fault they can meet, as time passes.
NextSweeps ==
    \/ \E draw \in SweepDraws : AutoResetExpiredPasswords(draw, FALSE)
    \/ \E draw \in CleanDraws : AutoResetExpiredPasswords(draw, TRUE)
    \/ \E draw \in SweepDraws : AutoResetInactiveUsers(draw, FALSE)
    \/ \E draw \in CleanDraws : AutoResetInactiveUsers(draw, TRUE)
    \/ Tick(SessionTTL)

SpecSweeps == InitPasswords /\ [][NextSweeps]_vars

\* The admin's bulk resets, with the faults each ManualReset can meet, as
\* time passes.
NextBulk ==
    \/ \E calls \in BulkCalls : BulkResetPasswords(calls, AdminID)
    \/ Tick(SessionTTL)

SpecBulk == Init /\ [][NextBulk]_vars

\* Sign-in, sign-out and the password changes of the salesperson, with and
\* without a failing activity write.
LogFaults == {"none", "log"}

\* The activity and reset-event tables hold at most MaxEvents rows together.
FewFaultRows == Len(activities) + Len(resetEvents) <= MaxEvents

NextFaults ==
    \/ \E fault \in LogFaults : LoginUnder(SalesEmail, SeedPassword, fault) /\ FewFaultRows'
    \/ \E token \in Tokens, fault \in LogFaults : LogoutUnder(token, fault) /\ FewFaultRows'
    \/ \E fault \in LogFaults :
         ChangePassword(SalesID, SeedPassword, "hunter22", fault) /\ FewFaultRows'
    \/ CreateResetEvent(SalesID, NoUser, "manual") /\ FewFaultRows'
    \/ \E token \in Tokens, fault \in LogFaults :
         ResetPasswordWithTokenUnder(token, SeedPassword, fault) /\ FewFaultRows'
    \/ \E fault \in LogFaults :
         ManualReset(SalesID, AdminID, "Aa0!Aa0!", fault) /\ FewFaultRows'

SpecFaults == Init /\ [][NextFaults]_vars

\* Sign-in and sign-out with every fault they can meet, as time passes.
NextSignIn ==
    \/ \E password \in Passwords, fault \in LoginFaults :
         LoginUnder(SalesEmail, password, fault)
    \/ \E token \in Tokens, fault \in LogoutFaults : LogoutUnder(token, fault)
    \/ Tick(SessionTTL + 1)

SpecSignIn == Init /\ [][NextSignIn]_vars

\* The two resets of the salesperson's password with every fault they can
\* meet.
NextResetFaults ==
    \/ CreateResetEvent(SalesID, NoUser, "manual") /\ FewFaultRows'
    \/ \E token \in Tokens, pw \in NewPasswords, fault \in ResetFaults :
         ResetPasswordWithTokenUnder(token, pw, fault) /\ FewFaultRows'
    \/ \E pw \in StrongPasswords, fault \in ManualResetFaults :
         ManualReset(SalesID, AdminID, pw, fault) /\ FewFaultRows'
    \/ Tick(SessionTTL)

SpecResetFaults == Init /\ [][NextResetFaults]_vars

\* ------------------------------------------------------- token columns
\* Mutant: the token column has no unique index.
TokenFreeUnenforced(tokens, token) == TRUE

\* gorm:"uniqueIndex" on Session.Token and PasswordResetEvent.Token: the
\* store takes a row only if no stored row holds its token.
TokenFree(tokens, token) == token \notin tokens

SessionTokens == {s.token : s \in sessions}
ResetTokens == {resetEvents[i].token : i \in DOMAIN resetEvents} \ {NoToken}

\* CreateSession up to db.Create: crypto/rand yields token and the row is
\* built.
DrawSessionToken(p, userID, token) ==
    /\ flight[p] = Idle
    /\ flight' = [flight EXCEPT ![p] = [Idle EXCEPT !.op = "CreateSession",
                                                    !.token = token,
                                                    !.userID = userID,
                                                    !.at = now]]
    /\ UNCHANGED <<users, sessions, activities, resetEvents, now, issued, last,
                   tokenLog, actor, target, verdict, gen,
                   items, cacheRun>>

\* db.Create(session) and the return of CreateSession.
InsertSession(p) ==
    LET call == flight[p]
        row == [token |-> call.token, userID |-> call.userID,
                expiresAt |-> call.at + SessionTTL]
    IN  /\ call.op = "CreateSession"
        /\ IF TokenFree(SessionTokens, call.token)
           THEN /\ sessions' = sessions \cup {row}
                /\ last' = Call("CreateSession", <<>>, "", call.token, Ok, call.userID)
           ELSE /\ sessions' = sessions
                /\ last' = Call("CreateSession", <<>>, "", call.token, ErrDuplicateKey,
                                call.userID)
        /\ flight' = [flight EXCEPT ![p] = Idle]
        /\ UNCHANGED <<users, activities, resetEvents, now, issued, tokenLog,
                       actor, target, verdict, gen,
                   items, cacheRun>>

\* CreateResetEvent up to db.Create.
DrawResetToken(p, userID, token) ==
    /\ flight[p] = Idle
    /\ flight' = [flight EXCEPT ![p] = [Idle EXCEPT !.op = "CreateResetEvent",
                                                    !.token = token,
                                                    !.userID = userID,
                                                    !.at = now]]
    /\ UNCHANGED <<users, sessions, activities, resetEvents, now, issued, last,
                   tokenLog, actor, target, verdict, gen,
                   items, cacheRun>>

\* db.Create(resetEvent) and the return of CreateResetEvent.
InsertResetEvent(p) ==
    LET call == flight[p]
        resetEvent == [userID |-> call.userID, adminID |-> NoUser, success |-> FALSE,
                       resetType |-> "manual", token |-> call.token,
                       expiresAt |-> call.at + ResetTokenTTL]
    IN  /\ call.op = "CreateResetEvent"
        /\ IF TokenFree(ResetTokens, call.token)
           THEN /\ resetEvents' = Append(resetEvents, resetEvent)
                /\ last' = Call("CreateResetEvent", <<>>, "", call.token, Ok, call.userID)
           ELSE /\ resetEvents' = resetEvents
                /\ last' = Call("CreateResetEvent", <<>>, "", call.token,
                                ErrDuplicateKey, call.userID)
        /\ Len(resetEvents') <= MaxEvents
        /\ flight' = [flight EXCEPT ![p] = Idle]
        /\ UNCHANGED <<users, sessions, activities, now, issued, tokenLog,
                       actor, target, verdict, gen,
                   items, cacheRun>>

\* Two goroutines create sessions and reset events with whatever tokens
\* crypto/rand yields.
NextTokens ==
    \/ \E p \in Procs, u \in UserIDs, token \in Tokens : DrawSessionToken(p, u, token)
    \/ \E p \in Procs : InsertSession(p)
    \/ \E p \in Procs, token \in Tokens : DrawResetToken(p, SalesID, token)
    \/ \E p \in Procs : InsertResetEvent(p)

SpecTokens == Init /\ [][NextTokens]_vars

\* ------------------------------------------------------- GetCurrentUser, step by step
\* db.Save(row) of gorm.io/gorm for a row with a primary key: an UPDATE of
\* every column, and an INSERT of the row when the UPDATE matched none.
Save(tbl, row) == {s \in tbl : s.token # row.token} \cup {row}

\* GetCurrentUser up to the session checks: GetSessionByToken and IsExpired.
ReadSession(p, sessionToken) ==
    /\ flight[p] = Idle
    /\ IF \/ GetSessionByToken(sessionToken) = {}
          \/ \E s \in GetSessionByToken(sessionToken) : IsExpired(s)
       THEN /\ last' = Call("GetCurrentUser", <<>>, "", sessionToken,
                            ErrInvalidOrExpiredSession, NoUser)
            /\ flight' = flight
       ELSE /\ flight' = [flight EXCEPT ![p] =
                            [Idle EXCEPT !.op = "GetCurrentUser",
                                         !.token = sessionToken,
                                         !.session = GetSessionByToken(sessionToken)]]
            /\ last' = last
    /\ UNCHANGED <<users, sessions, activities, resetEvents, now, issued, tokenLog,
                   actor, target, verdict, gen,
                   items, cacheRun>>

\* The rest of GetCurrentUser: the user is loaded, and the session the call
\* holds is destroyed by token or extended and saved.
WriteBackSession(p) ==
    LET call == flight[p]
        session == CHOOSE s \in call.session : TRUE
        user == users[session.userID]
    IN  /\ call.op = "GetCurrentUser"
        /\ IF ~user.enabled
           THEN /\ sessions' = DestroySession(sessions, call.token)
                /\ tokenLog' = tokenLog
                /\ last' = Call("GetCurrentUser", <<>>, "", call.token,
                                ErrUserDisabled, NoUser)
           ELSE /\ sessions' = Save(sessions, Extend(session))
                /\ tokenLog' = [tokenLog EXCEPT ![call.token].usedAt = now]
                /\ last' = Call("GetCurrentUser", <<>>, "", call.token, Ok, user.id)
        /\ flight' = [flight EXCEPT ![p] = Idle]
        /\ UNCHANGED <<users, activities, resetEvents, now, issued, actor, target,
                       verdict, gen,
                   items, cacheRun>>

\* The salesperson signs in and out while requests with the session's token
\* are being resolved.
NextResolve ==
    \/ Login(SalesEmail, SeedPassword) /\ FewRows'
    \/ \E p \in Procs, token \in Tokens : ReadSession(p, token)
    \/ \E p \in Procs : WriteBackSession(p)
    \/ \E token \in Tokens : Logout(token) /\ FewRows'
    \/ Tick(SessionTTL \div 2)

SpecResolve == Init /\ [][NextResolve]_vars

\* ------------------------------------------------------- Login, step by step
\* Login up to the checks on the user it loaded: a Login that fails them
\* returns at once, one that passes holds the user struct.
ReadUser(p, email, password) ==
    /\ flight[p] = Idle
    /\ IF \E id \in UsersByEmail(email) : /\ users[id].enabled
                                          /\ CheckPassword(users[id], password)
                                          /\ ~IsPasswordExpired(users[id])
       THEN /\ flight' = [flight EXCEPT ![p] =
                            [Idle EXCEPT !.op = "Login",
                                         !.email = email,
                                         !.pw = password,
                                         !.user = {users[id] : id \in UsersByEmail(email)}]]
            /\ UNCHANGED <<users, sessions, activities, resetEvents, now, issued, last,
                           tokenLog, actor, target, verdict, gen,
                   items, cacheRun>>
       ELSE Login(email, password)

\* The rest of Login: UpdateSignInInfo on the struct, db.Save(&user) of all
\* its columns, CreateSession and LogLogin.
SaveSignIn(p) ==
    LET call == flight[p]
        user == CHOOSE u \in call.user : TRUE
        signedIn == UpdateSignInInfo(user)
        token == GenerateSecureToken
    IN  /\ call.op = "Login"
        /\ issued < MaxTokens
        /\ users' = [users EXCEPT ![user.id] = signedIn]
        /\ issued' = issued + 1
        /\ sessions' = CreateSession(sessions, signedIn, token)
        /\ activities' = LogLogin(activities, signedIn)
        /\ tokenLog' = [tokenLog EXCEPT ![token].user = signedIn.id,
                                        ![token].usedAt = now]
        /\ last' = Call("Login", call.email, call.pw, token, Ok, signedIn.id)
        /\ flight' = [flight EXCEPT ![p] = Idle]
        /\ Len(activities') <= MaxLog
        /\ UNCHANGED <<resetEvents, now, actor, target, verdict, gen,
                   items, cacheRun>>

\* The salesperson signs in while the admin disables them and while they
\* change their password in another request.
NextLostUpdate ==
    \/ \E p \in Procs : ReadUser(p, SalesEmail, SeedPassword) /\ FewRows'
    \/ \E p \in Procs : SaveSignIn(p) /\ FewRows'
    \/ HandleToggleStatus(AdminID, SalesID) /\ FewRows'
    \/ ChangePassword(SalesID, SeedPassword, "hunter22", "none") /\ FewRows'
    \/ Tick(SessionTTL)

SpecLostUpdate == Init /\ [][NextLostUpdate]_vars

\* ------------------------------------------------------- user controllers
\* The seeded admin, manager and salesperson.
StaffIDs == {AdminID, ManagerID, SalesID}
ManagerEmail == <<"m">>

Staff ==
    [id \in StaffIDs |->
       CASE id = AdminID -> SeedUser(AdminID, normalizeEmail(AdminEmail), RoleAdmin, 0)
         [] id = ManagerID -> SeedUser(ManagerID, normalizeEmail(ManagerEmail),
                                       RoleManager, 0)
         [] OTHER -> SeedUser(SalesID, normalizeEmail(SalesEmail), RoleSalesperson, 0)]

InitStaff ==
    /\ users = Staff
    /\ sessions = {}
    /\ activities = <<>>
    /\ resetEvents = <<>>
    /\ now = 0
    /\ issued = 0
    /\ last = NoCall
    /\ tokenLog = [t \in Tokens |-> [user |-> NoUser, usedAt |-> NoTime, ended |-> "no"]]
    /\ actor = NoCheck
    /\ target = NoCheck
    /\ verdict = [manage |-> FALSE, disable |-> FALSE]
    /\ gen = NoPassword
    /\ flight = NoFlight
    /\ items = NoItems
    /\ cacheRun = NoCacheRun

\* ResetPassword and HandleResetPassword for the current user the
\* middleware resolved: the target is loaded, CanManageUser is asked, and
\* ManualReset runs with newPassword the string it generates.
ResetByHandler(op, currentUserID, userID, newPassword, denied) ==
    /\ currentUserID \in DOMAIN users
    /\ users[currentUserID].enabled
    /\ IF userID \notin DOMAIN users
       THEN /\ last' = [Call(op, <<>>, "", NoToken, ErrRecordNotFound, currentUserID)
                          EXCEPT !.ids = <<userID>>]
            /\ UNCHANGED <<users, resetEvents, activities>>
       ELSE IF ~CanManageUser(users[currentUserID], users[userID])
       THEN /\ last' = [Call(op, <<>>, "", NoToken, denied, currentUserID)
                          EXCEPT !.ids = <<userID>>]
            /\ UNCHANGED <<users, resetEvents, activities>>
       ELSE LET r == ManualResetOn(Tables, userID, currentUserID, newPassword, "none")
            IN  /\ users' = r.db.users
                /\ resetEvents' = r.db.resetEvents
                /\ activities' = r.db.activities
                /\ last' = [Call(op, <<>>, "", NoToken, r.res, currentUserID)
                              EXCEPT !.ids = <<userID>>, !.newPw = r.pw,
                                     !.saved = r.saved]
    /\ Len(activities') <= MaxLog
    /\ Len(resetEvents') <= MaxEvents
    /\ UNCHANGED <<sessions, now, issued, tokenLog, actor, target, verdict, gen, flight,
                   items, cacheRun>>

ResetPassword(currentUserID, userID, newPassword) ==
    ResetByHandler("ResetPassword", currentUserID, userID, newPassword,
                   ErrPermissionDenied)

HandleResetPassword(currentUserID, userID, newPassword) ==
    ResetByHandler("HandleResetPassword", currentUserID, userID, newPassword,
                   ErrAccessDenied)

\* UserController.BulkResetPasswords for the current user the middleware
\* resolved: user_ids is bound (required, hence not empty) and handed to the
\* service with the current user's id.
UserControllerBulkResetPasswords(currentUserID, calls) ==
    /\ currentUserID \in DOMAIN users
    /\ users[currentUserID].enabled
    /\ calls # <<>>
    /\ BulkResetPasswords(calls, currentUserID)

\* The requests of one id each that reach the bulk endpoint.
StaffCalls ==
    {<<[userID |-> id, pw |-> "Aa0!Aa0!", fault |-> "none"]>> :
       id \in StaffIDs \cup {MissingID}}

\* Each of the three seeded users asks for resets of each of them through
\* the three endpoints.
NextAdminResets ==
    \/ \E a \in StaffIDs, t \in StaffIDs \cup {MissingID}, pw \in StrongPasswords :
         ResetPassword(a, t, pw) /\ FewFaultRows'
    \/ \E a \in StaffIDs, t \in StaffIDs \cup {MissingID}, pw \in StrongPasswords :
         HandleResetPassword(a, t, pw) /\ FewFaultRows'
    \/ \E a \in StaffIDs, calls \in StaffCalls :
         UserControllerBulkResetPasswords(a, calls) /\ FewFaultRows'

SpecAdminResets == InitStaff /\ [][NextAdminResets]_vars

\* ------------------------------------------------------- user CRUD
\* What the handlers answer when they turn a request down.
ErrManagersOnlySalespeople == "Managers can only create salespeople"
ErrManagersNoRoles == "Managers cannot change user roles"
ErrInvalidRole == "Please select a valid role"
ErrEmailRequired == "Email is required"
ErrEmailInUse == "Email address is already in use"
ErrBadRequest == "bad request"
ErrCannotDisable == "Cannot disable this user"

\* Mutant: the hook leaves the email as the caller set it.
BeforeCreateKeepsEmail(u) == u

\* User.BeforeCreate and User.BeforeUpdate.
BeforeCreate(u) == [u EXCEPT !.email = normalizeEmail(u.email)]
BeforeUpdate(u) == [u EXCEPT !.email = normalizeEmail(u.email)]

\* The primary key the store gives the next row.
NextID(tbl) == (CHOOSE m \in DOMAIN tbl : \A id \in DOMAIN tbl : id <= m) + 1

\* db.Create(&user): the hook runs, and the row is stored unless the unique
\* index on email refuses it.
CreateRow(tbl, u) ==
    LET row == [BeforeCreate(u) EXCEPT !.id = NextID(tbl)]
    IN  IF \E id \in DOMAIN tbl : tbl[id].email = row.email
        THEN [users |-> tbl, res |-> ErrDuplicateKey, id |-> NoUser]
        ELSE [users |-> [id \in DOMAIN tbl \cup {row.id} |->
                           IF id = row.id THEN row ELSE tbl[id]],
              res |-> Ok, id |-> row.id]

\* db.Save(&user) of a stored user: the hook runs, and every column is
\* written unless the unique index on email refuses it.
SaveRow(tbl, u) ==
    LET row == BeforeUpdate(u)
    IN  IF \E id \in DOMAIN tbl \ {row.id} : tbl[id].email = row.email
        THEN [users |-> tbl, res |-> ErrDuplicateKey, id |-> NoUser]
        ELSE [users |-> [tbl EXCEPT ![row.id] = row], res |-> Ok, id |-> row.id]

\* models.User{...} followed by SetPassword.
NewUser(email, role, enabled, password) ==
    SetPassword([id |-> NoUser, email |-> email, role |-> role, enabled |-> enabled,
                 digest |-> Hash(""),
                 lastSignInAt |-> NoTime, currentSignInAt |-> NoTime, signInCount |-> 0,
                 passwordResetAt |-> NoTime, passwordExpiresAt |-> NoTime],
                password)

\* binding:"required,email": not empty and without blanks.
BindsAsEmail(email) == email # <<>> /\ \A i \in DOMAIN email : email[i] # " "

\* Mutant: a manager is only kept from creating admins.
ManagerOversteppingAdminOnly(currentUser, role) ==
    currentUser.role = RoleManager /\ role = RoleAdmin

\* currentUser.Role == RoleManager && role != RoleSalesperson.
ManagerOverstepping(currentUser, role) ==
    currentUser.role = RoleManager /\ role # RoleSalesperson

\* What a handler leaves behind: the users table, the activity it logged and
\* the row in last.
Answer(op, currentUserID, email, role, password, userID, tbl, res) ==
    /\ users' = tbl
    /\ activities' = IF res = Ok THEN LogUserCRUD(activities, users[currentUserID])
                     ELSE activities
    /\ last' = [Call(op, email, password, NoToken, res, currentUserID)
                  EXCEPT !.role = role, !.ids = <<userID>>]
    /\ Len(activities') <= MaxLog
    /\ UNCHANGED <<sessions, resetEvents, now, issued, tokenLog, actor, target,
                   verdict, gen, flight,
                   items, cacheRun>>

\* UserController.CreateUser with a valid name and company: role is the
\* number in the body, whatever it is.
CreateUser(currentUserID, email, role, password) ==
    LET currentUser == users[currentUserID]
        created == CreateRow(users, NewUser(email, role, TRUE, password))
        answer(tbl, res, id) ==
            Answer("CreateUser", currentUserID, email, role, password, id, tbl, res)
    IN  /\ currentUser.enabled
        /\ IF ~BindsAsEmail(email) \/ role = 0 \/ password = ""
           THEN answer(users, ErrBadRequest, NoUser)
           ELSE IF ManagerOverstepping(currentUser, role)
           THEN answer(users, ErrManagersOnlySalespeople, NoUser)
           ELSE IF ValidatePassword(password) # Ok
           THEN answer(users, ValidatePassword(password), NoUser)
           ELSE answer(created.users, created.res, created.id)

\* UserController.UpdateUser with no name and no company in the body; a
\* field the body leaves out is the empty set.
UpdateUser(currentUserID, userID, req) ==
    LET currentUser == users[currentUserID]
        role == IF req.role = {} THEN NoRole ELSE CHOOSE r \in req.role : TRUE
        email == IF req.email = {} THEN <<>> ELSE CHOOSE e \in req.email : TRUE
        answer(tbl, res) ==
            Answer("UpdateUser", currentUserID, email, role, "", userID, tbl, res)
    IN  /\ currentUser.enabled
        /\ IF userID \notin DOMAIN users THEN answer(users, ErrRecordNotFound)
           ELSE IF ~CanManageUser(currentUser, users[userID])
           THEN answer(users, ErrPermissionDenied)
           ELSE IF req.role # {} /\ currentUser.role = RoleManager
           THEN answer(users, ErrManagersNoRoles)
           ELSE IF req.enabled # {} /\ ~CanDisableUser(currentUser, users[userID])
           THEN answer(users, ErrCannotDisable)
           ELSE LET user == [users[userID] EXCEPT
                               !.email = IF req.email = {} THEN @ ELSE email,
                               !.role = IF req.role = {} THEN @ ELSE role,
                               !.enabled = IF req.enabled = {} THEN @
                                           ELSE CHOOSE b \in req.enabled : TRUE]
                    saved == SaveRow(users, user)
                IN  answer(saved.users, saved.res)

\* WebUserController.HandleCreateUser with a valid name and company and
\* password_confirm equal to password; email is the form field as posted and
\* role the number in the role field. Every failed validation adds to
\* errors, the manager's message replacing the one of the range check, and
\* any of them turns the form down.
HandleCreateUser(currentUserID, rawEmail, role, enabled, password) ==
    LET currentUser == users[currentUserID]
        email == TrimSpace(ToLower(rawEmail))
        created == CreateRow(users, NewUser(email, role, enabled, password))
        answer(tbl, res, id) ==
            Answer("HandleCreateUser", currentUserID, rawEmail, role, password, id,
                   tbl, res)
    IN  /\ currentUser.enabled
        /\ IF email = <<>> THEN answer(users, ErrEmailRequired, NoUser)
           ELSE IF ManagerOverstepping(currentUser, role)
           THEN answer(users, ErrManagersOnlySalespeople, NoUser)
           ELSE IF role \notin Roles THEN answer(users, ErrInvalidRole, NoUser)
           ELSE IF ValidatePassword(password) # Ok
           THEN answer(users, ValidatePassword(password), NoUser)
           ELSE IF \E id \in DOMAIN users : users[id].email = email
           THEN answer(users, ErrEmailInUse, NoUser)
           ELSE answer(created.users, created.res, created.id)

\* WebUserController.HandleEditUser with a valid name and company.
HandleEditUser(currentUserID, userID, rawEmail, role, enabled) ==
    LET currentUser == users[currentUserID]
        email == TrimSpace(ToLower(rawEmail))
        answer(tbl, res) ==
            Answer("HandleEditUser", currentUserID, rawEmail, role, "", userID, tbl, res)
    IN  /\ currentUser.enabled
        /\ IF userID \notin DOMAIN users THEN answer(users, ErrRecordNotFound)
           ELSE IF ~CanManageUser(currentUser, users[userID])
           THEN answer(users, ErrAccessDenied)
           ELSE IF email = <<>> THEN answer(users, ErrEmailRequired)
           ELSE IF ManagerOverstepping(currentUser, role)
           THEN answer(users, ErrManagersNoRoles)
           ELSE IF role \notin Roles THEN answer(users, ErrInvalidRole)
           ELSE IF \E id \in DOMAIN users \ {userID} : users[id].email = email
           THEN answer(users, ErrEmailInUse)
           ELSE IF ~enabled /\ ~CanDisableUser(currentUser, users[userID])
           THEN answer(users, ErrCannotDisable)
           ELSE LET editUser == [users[userID] EXCEPT !.email = email,
                                                      !.role = role,
                                                      !.enabled = enabled]
                    saved == SaveRow(users, editUser)
                IN  answer(saved.users, saved.res)

\* The role numbers a request may carry: the three roles and one beyond.
RoleInputs == Roles \cup {3}
UpdateUserRequests ==
    [email : {{}}, role : {{}} \cup {{r} : r \in RoleInputs}, enabled : {{}, {FALSE}}]

\* The manager creates users and edits the salesperson and the admin through
\* the JSON and the web handlers, asking for every role; the admin creates a
\* manager.
NextCrud ==
    \/ \E role \in RoleInputs :
         CreateUser(ManagerID, <<"Z">>, role, "hunter22") /\ FewFaultRows'
    \/ CreateUser(AdminID, <<"Z">>, RoleManager, "hunter22") /\ FewFaultRows'
    \/ \E t \in {SalesID, AdminID}, req \in UpdateUserRequests :
         UpdateUser(ManagerID, t, req) /\ FewFaultRows'
    \/ \E role \in RoleInputs :
         HandleCreateUser(ManagerID, <<"Z">>, role, TRUE, "hunter22") /\ FewFaultRows'
    \/ \E t \in {SalesID, AdminID}, role \in RoleInputs, enabled \in BOOLEAN :
         HandleEditUser(ManagerID, t, <<"s">>, role, enabled) /\ FewFaultRows'

SpecCrud == InitStaff /\ [][NextCrud]_vars

\* ------------------------------------------------------- PasswordResetController
\* http.StatusOK and http.StatusInternalServerError.
StatusOK == 200
StatusInternalServerError == 500

MsgIfEmailExists == "If the email exists, a reset link has been sent"
MsgLinkSent == "Password reset link has been sent"
MsgCreateFailed == "Failed to create reset request"

RequestFaults == {"none", "event"}

\* What RequestPasswordReset writes to the caller for an email that binds:
\* the status and the message or error and token of the body.
RequestPasswordResetAnswer(email, fault) ==
    IF UsersByEmail(email) = {}
    THEN [status |-> StatusOK, message |-> MsgIfEmailExists, token |-> NoToken]
    ELSE LET user == users[CHOOSE id \in UsersByEmail(email) : TRUE]
         IN  IF ~user.enabled
             THEN [status |-> StatusOK, message |-> MsgIfEmailExists, token |-> NoToken]
             ELSE IF fault # "none"
             THEN [status |-> StatusInternalServerError, message |-> MsgCreateFailed,
                   token |-> NoToken]
             ELSE [status |-> StatusOK, message |-> MsgLinkSent,
                   token |-> GenerateSecureToken]

\* RequestPasswordReset for an email that binds; for the email of an enabled
\* user it runs CreateResetEvent, in which the insert may fail.
RequestPasswordReset(email, fault) ==
    LET answer == RequestPasswordResetAnswer(email, fault)
        userID == CHOOSE id \in UsersByEmail(email) : TRUE
        resetEvent == [userID |-> userID, adminID |-> NoUser, success |-> FALSE,
                       resetType |-> "manual", token |-> GenerateSecureToken,
                       expiresAt |-> now + ResetTokenTTL]
    IN  /\ last' = [Call("RequestPasswordReset", email, "", answer.token,
                         answer.message, NoUser)
                      EXCEPT !.status = answer.status, !.fault = fault]
        /\ IF answer.message = MsgIfEmailExists
           THEN UNCHANGED <<resetEvents, issued>>
           ELSE /\ issued < MaxTokens
                /\ issued' = issued + 1
                /\ resetEvents' = IF fault = "none" THEN Append(resetEvents, resetEvent)
                                  ELSE resetEvents
        /\ Len(resetEvents') <= MaxEvents
        /\ UNCHANGED <<users, sessions, activities, now, tokenLog, actor, target,
                       verdict, gen, flight,
                   items, cacheRun>>

\* The emails reset requests name: the salesperson's, the admin's and one
\* that no account has.
RequestEmails == {SalesEmail, AdminEmail, <<"z">>}

\* Reset links are requested while the admin disables and enables the
\* salesperson.
NextRequestReset ==
    \/ \E email \in RequestEmails, fault \in RequestFaults :
         RequestPasswordReset(email, fault)
    \/ HandleToggleStatus(AdminID, SalesID) /\ FewFaultRows'
    \/ \E token \in Tokens : ResetPasswordWithToken(token, "hunter22") /\ FewFaultRows'

SpecRequestReset == Init /\ [][NextRequestReset]_vars

\* ------------------------------------------------------- emails
\* What Login returns for the email and password when the store and
\* crypto/rand work.
LoginOutcome(email, password) ==
    IF UsersByEmail(email) = {} THEN ErrInvalidCredentials
    ELSE LET user == users[CHOOSE id \in UsersByEmail(email) : TRUE]
         IN  IF ~user.enabled THEN ErrInvalidCredentials
             ELSE IF ~CheckPassword(user, password) THEN ErrInvalidCredentials
             ELSE IF IsPasswordExpired(user) THEN ErrPasswordExpired
             ELSE Ok

\* Spellings of two addresses, as bodies and forms carry them.
EmailSpellings == {<<"z">>, <<" ", "Z">>, <<"S">>, <<"s", " ">>}

\* The admin creates users and changes the salesperson's email through the
\* JSON and the web handlers, and users sign in under every spelling.
NextEmails ==
    \/ \E email \in EmailSpellings :
         CreateUser(AdminID, email, RoleSalesperson, "hunter22") /\ FewFaultRows'
    \/ \E email \in EmailSpellings :
         UpdateUser(AdminID, SalesID, [email |-> {email}, role |-> {}, enabled |-> {}])
           /\ FewFaultRows'
    \/ \E email \in EmailSpellings :
         HandleCreateUser(AdminID, email, RoleSalesperson, TRUE, "hunter22")
           /\ FewFaultRows'
    \/ \E email \in EmailSpellings :
         HandleEditUser(AdminID, SalesID, email, RoleSalesperson, TRUE) /\ FewFaultRows'
    \/ \E email \in EmailSpellings, password \in Passwords :
         Login(email, password) /\ FewFaultRows'

SpecEmails == InitStaff /\ [][NextEmails]_vars

\* ------------------------------------------------------- User.SetPassword, called
\* user.SetPassword(password) on a loaded user, the struct then being
\* stored: the error it can return is bcrypt's, which no plaintext here
\* brings about.
UserSetPassword(userID, password) ==
    /\ users' = [users EXCEPT ![userID] = SetPassword(users[userID], password)]
    /\ last' = Call("SetPassword", <<>>, password, NoToken, Ok, userID)
    /\ UNCHANGED <<sessions, activities, resetEvents, now, issued, tokenLog,
                   actor, target, verdict, gen, flight,
                   items, cacheRun>>

\* Passwords of every length are set for both users as time passes.
NextSetPassword ==
    \/ \E id \in UserIDs, password \in NewPasswords : UserSetPassword(id, password)
    \/ \E d \in TickSteps : Tick(d)

SpecSetPassword == Init /\ [][NextSetPassword]_vars

\* Sign-ins in which CreateSession may fail, sign-outs, and the clock.
CreateSessionFaults == {"none", "token", "session"}

NextCreateSession ==
    \/ \E email \in RawEmails, password \in Passwords, fault \in CreateSessionFaults :
         LoginUnder(email, password, fault)
    \/ \E token \in Tokens : Logout(token)
    \/ \E d \in TickSteps : Tick(d)

SpecCreateSession == Init /\ [][NextCreateSession]_vars

\* ------------------------------------------------------- reset-token expiry
\* The salesperson asked for a reset token a quarter of an hour less than 24
\* hours ago: CreateResetEvent stored the event with the first token.
InitResetPending ==
    /\ users = Seed(0)
    /\ sessions = {}
    /\ activities = <<>>
    /\ resetEvents = <<[userID |-> SalesID, adminID |-> NoUser, success |-> FALSE,
                        resetType |-> "manual", token |-> 1,
                        expiresAt |-> (SessionTTL \div 2 - ResetTokenTTL) + ResetTokenTTL]>>
    /\ now = 0
    /\ issued = 1
    /\ last = NoCall
    /\ tokenLog = [t \in Tokens |-> [user |-> NoUser, usedAt |-> NoTime, ended |-> "no"]]
    /\ actor = NoCheck
    /\ target = NoCheck
    /\ verdict = [manage |-> FALSE, disable |-> FALSE]
    /\ gen = NoPassword
    /\ flight = NoFlight
    /\ items = NoItems
    /\ cacheRun = NoCacheRun

\* Reset tokens are created and redeemed while the pending one runs out.
SpecResetExpiry == InitResetPending /\ [][NextReset]_vars

\* ------------------------------------------------------- session deletions
\* SessionService.DestroySession, called on its own.
DestroySessionByToken(token) ==
    /\ sessions' = DestroySession(sessions, token)
    /\ last' = Call("DestroySession", <<>>, "", token, Ok, NoUser)
    /\ UNCHANGED <<users, activities, resetEvents, now, issued, tokenLog,
                   actor, target, verdict, gen, flight,
                   items, cacheRun>>

DestroyUserSessions(userID) ==
    /\ sessions' = SessionsOfOthers(sessions, userID)
    /\ last' = Call("DestroyUserSessions", <<>>, "", NoToken, Ok, userID)
    /\ UNCHANGED <<users, activities, resetEvents, now, issued, tokenLog,
                   actor, target, verdict, gen, flight,
                   items, cacheRun>>

\* Both seeded users sign in, sessions are resolved and deleted in the three
\* ways, as time passes.
NextSessions ==
    \/ \E email \in {SalesEmail, AdminEmail} : Login(email, SeedPassword)
    \/ \E token \in Tokens : GetCurrentUser(token)
    \/ \E token \in Tokens : DestroySessionByToken(token)
    \/ \E userID \in UserIDs : DestroyUserSessions(userID)
    \/ CleanupExpiredSessions
    \/ \E d \in TickSteps : Tick(d)

SpecSessions == Init /\ [][NextSessions]_vars

\* ------------------------------------------------------- background tasks
\* The goroutine of startBackgroundTasks. Its op is "idle" while it waits on
\* ticker.C and otherwise the job it is about to run; ran lists the jobs it
\* has run since the ticker last fired, each with the error it returned.
Sweeper == 2

JobOrder ==
    <<"CleanupExpiredSessions", "AutoResetExpiredPasswords", "AutoResetInactiveUsers">>

\* Mutant: a job that returns an error ends the work of the tick.
AfterJobStopsOnError(job, err) ==
    IF err # Ok THEN "idle"
    ELSE IF job = JobOrder[1] THEN JobOrder[2]
    ELSE IF job = JobOrder[2] THEN JobOrder[3]
    ELSE "idle"

\* Where the loop body goes after a job: the error is logged and the next
\* statement runs.
AfterJob(job, err) ==
    IF job = JobOrder[1] THEN JobOrder[2]
    ELSE IF job = JobOrder[2] THEN JobOrder[3]
    ELSE "idle"

JobDone(job, err) ==
    [flight EXCEPT ![Sweeper] = [@ EXCEPT !.op = AfterJob(job, err),
                                          !.ran = Append(@, [job |-> job, res |-> err])]]

\* for range ticker.C: the ticker fires and the loop body starts. The clock
\* of the model stops at MaxTime; the ticker goes on firing.
TickerFires ==
    /\ flight[Sweeper].op = "idle"
    /\ flight' = [flight EXCEPT ![Sweeper] = [Idle EXCEPT !.op = JobOrder[1]]]
    /\ UNCHANGED <<users, sessions, activities, resetEvents, now, issued, last,
                   tokenLog, actor, target, verdict, gen,
                   items, cacheRun>>

CleanupJob(queryFails) ==
    LET err == IF queryFails THEN ErrInternal ELSE Ok
    IN  /\ flight[Sweeper].op = JobOrder[1]
        /\ sessions' = IF queryFails THEN sessions
                       ELSE {s \in sessions : ~(s.expiresAt < now)}
        /\ last' = [Call(JobOrder[1], <<>>, "", NoToken, err, NoUser)
                      EXCEPT !.fault = IF queryFails THEN "query" ELSE "none"]
        /\ flight' = JobDone(JobOrder[1], err)
        /\ UNCHANGED <<users, activities, resetEvents, now, issued, tokenLog,
                       actor, target, verdict, gen,
                   items, cacheRun>>

SweepJob(job, selected, draw, queryFails, resetType) ==
    LET r == IF queryFails THEN [db |-> Tables, saved |-> <<>>]
             ELSE SweepOn(Tables, selected, draw, resetType)
        err == IF queryFails THEN ErrInternal ELSE Ok
    IN  /\ flight[Sweeper].op = job
        /\ users' = r.db.users
        /\ resetEvents' = r.db.resetEvents
        /\ last' = [Call(job, <<>>, "", NoToken, err, NoUser)
                      EXCEPT !.saved = r.saved,
                             !.fault = IF queryFails THEN "query" ELSE "none",
                             !.faults = [id \in selected |-> draw[id].fault]]
        /\ flight' = JobDone(job, err)
        /\ UNCHANGED <<sessions, activities, now, issued, tokenLog, actor, target,
                       verdict, gen,
                   items, cacheRun>>

ExpiryJob(draw, queryFails) ==
    SweepJob(JobOrder[2], ExpiredPasswordUsers, draw, queryFails, "automatic_expiry")

InactivityJob(draw, queryFails) ==
    SweepJob(JobOrder[3], InactiveUsers, draw, queryFails, "automatic_inactivity")

\* The seeded users, whose passwords have expired or expire within the first
\* session, and who have not signed in yet.
InitTicker ==
    /\ \E seededAt \in PasswordSeedTimes : users = Seed(seededAt)
    /\ sessions = {}
    /\ activities = <<>>
    /\ resetEvents = <<>>
    /\ now = 0
    /\ issued = 0
    /\ last = NoCall
    /\ tokenLog = [t \in Tokens |-> [user |-> NoUser, usedAt |-> NoTime, ended |-> "no"]]
    /\ actor = NoCheck
    /\ target = NoCheck
    /\ verdict = [manage |-> FALSE, disable |-> FALSE]
    /\ gen = NoPassword
    /\ flight = NoFlight
    /\ items = NoItems
    /\ cacheRun = NoCacheRun

\* A sweep in which the processing of the salesperson may fail.
TickerDraws ==
    {[id \in UserIDs |-> [pw |-> "Aa0!Aa0!",
                          fault |-> IF id = SalesID THEN f ELSE "none"]] :
       f \in {"none", "save"}}

\* The salesperson signs in while the hourly jobs run, each of which may fail.
NextTicker ==
    \/ Login(SalesEmail, SeedPassword)
    \/ Tick(SessionTTL + 1)
    \/ TickerFires
    \/ \E queryFails \in BOOLEAN : CleanupJob(queryFails)
    \/ \E draw \in TickerDraws, queryFails \in BOOLEAN : ExpiryJob(draw, queryFails)
    \/ \E draw \in CleanDraws, queryFails \in BOOLEAN : InactivityJob(draw, queryFails)

\* The ticker keeps firing and the goroutine keeps running; no failure of the
\* store lasts for ever.
LiveTicker ==
    /\ InitTicker
    /\ [][NextTicker]_vars
    /\ WF_vars(TickerFires)
    /\ SF_vars(CleanupJob(FALSE))
    /\ SF_vars(\E draw \in CleanDraws : ExpiryJob(draw, FALSE))
    /\ WF_vars(\E draw \in CleanDraws, queryFails \in BOOLEAN : InactivityJob(draw, queryFails))

\* ------------------------------------------------------- inactivity
\* The salesperson signed in twice, more than ten days ago; the administrator
\* has not signed in yet.
InitInactive ==
    /\ \E seededAt \in SeedTimes :
         users = [Seed(seededAt) EXCEPT ![SalesID] = SignedInLongAgo(@)]
    /\ sessions = {}
    /\ activities = <<>>
    /\ resetEvents = <<>>
    /\ now = 0
    /\ issued = 0
    /\ last = NoCall
    /\ tokenLog = [t \in Tokens |-> [user |-> NoUser, usedAt |-> NoTime, ended |-> "no"]]
    /\ actor = NoCheck
    /\ target = NoCheck
    /\ verdict = [manage |-> FALSE, disable |-> FALSE]
    /\ gen = NoPassword
    /\ flight = NoFlight
    /\ items = NoItems
    /\ cacheRun = NoCacheRun

\* A sweep in which nothing fails, for either generated password.
InactivityDraws ==
    {[id \in UserIDs |-> [pw |-> p, fault |-> "none"]] : p \in StrongPasswords}

\* The inactivity sweep runs again and again; the salesperson signs in, or
\* tries to.
NextInactivity ==
    \/ \E draw \in InactivityDraws : AutoResetInactiveUsers(draw, FALSE)
    \/ \E password \in {SeedPassword} \cup StrongPasswords : Login(SalesEmail, password)
    \/ \E d \in TickSteps : Tick(d)

SpecInactivity == InitInactive /\ [][NextInactivity]_vars

\* ------------------------------------------------------- disabled users
\* The salesperson has just signed in twice and holds the first two tokens.
InitTwoSessions ==
    /\ now = 0
    /\ users = [Seed(0) EXCEPT ![SalesID] = UpdateSignInInfo(UpdateSignInInfo(@))]
    /\ sessions = CreateSession(CreateSession({}, users[SalesID], 1), users[SalesID], 2)
    /\ activities = <<>>
    /\ resetEvents = <<>>
    /\ issued = 2
    /\ last = NoCall
    /\ tokenLog = [t \in Tokens |->
                     IF t \in {1, 2} THEN [user |-> SalesID, usedAt |-> now, ended |-> "no"]
                     ELSE [user |-> NoUser, usedAt |-> NoTime, ended |-> "no"]]
    /\ actor = NoCheck
    /\ target = NoCheck
    /\ verdict = [manage |-> FALSE, disable |-> FALSE]
    /\ gen = NoPassword
    /\ flight = NoFlight
    /\ items = NoItems
    /\ cacheRun = NoCacheRun

\* The administrator disables and re-enables the salesperson, whose sessions
\* are presented, as time passes.
NextDisable ==
    \/ \E token \in Tokens : GetCurrentUser(token)
    \/ HandleToggleStatus(AdminID, SalesID)
    \/ \E d \in TickSteps : Tick(d)

SpecDisable == InitTwoSessions /\ [][NextDisable]_vars

\* ------------------------------------------------------- user management
\* The administrator creates users, edits the salesperson and the manager
\* and toggles the status of each member of staff.
NextManage ==
    \/ \E role \in Roles, enabled \in BOOLEAN :
         HandleCreateUser(AdminID, <<"Z">>, role, enabled, "hunter22") /\ FewFaultRows'
    \/ \E role \in Roles, enabled \in BOOLEAN :
         HandleEditUser(AdminID, SalesID, SalesEmail, role, enabled) /\ FewFaultRows'
    \/ \E role \in Roles, enabled \in BOOLEAN :
         HandleEditUser(AdminID, ManagerID, ManagerEmail, role, enabled) /\ FewFaultRows'
    \/ \E t \in StaffIDs : HandleToggleStatus(AdminID, t) /\ FewFaultRows'
    \/ \E t \in {SalesID, ManagerID}, req \in UpdateUserRequests :
         UpdateUser(AdminID, t, req) /\ FewFaultRows'

SpecManage == InitStaff /\ [][NextManage]_vars

\* ------------------------------------------------------- cache
\* 5-minute TTL for dashboard stats.
StatsTTL == 5

CacheFrame ==
    UNCHANGED <<users, sessions, activities, resetEvents, now, issued, last,
                tokenLog, actor, target, verdict, gen, flight>>

\* time.Now().After(ci.ExpiresAt)
CacheItemIsExpired(item, at) == at > item.expiresAt

\* c.items.Delete(key) after the check of an entry loaded earlier: whatever
\* is stored under the key goes.
DeleteChecked(tbl, key, item) == [tbl EXCEPT ![key] = NoItem]

Set(key, value, ttl) ==
    LET item == [data |-> value, expiresAt |-> now + ttl]
    IN  /\ items' = [items EXCEPT ![key] = item]
        /\ cacheRun' = [cacheRun EXCEPT !.set[key] = item]
        /\ CacheFrame

Delete(key) ==
    /\ items' = [items EXCEPT ![key] = NoItem]
    /\ cacheRun' = [cacheRun EXCEPT !.set[key] = NoItem]
    /\ CacheFrame

Clear ==
    /\ items' = NoItems
    /\ cacheRun' = [cacheRun EXCEPT !.set = NoItems]
    /\ CacheFrame

\* Get up to c.items.Load(key): a key that is not stored is a miss at once.
GetLoad(p, key) ==
    LET call == [NoGet EXCEPT !.key = key, !.item = items[key],
                              !.promised = cacheRun.set[key]]
    IN  /\ cacheRun.get[p].pc # "loaded"
        /\ cacheRun' = [cacheRun EXCEPT !.get[p] =
                          [call EXCEPT !.pc = IF items[key] = NoItem THEN "done"
                                             ELSE "loaded"]]
        /\ UNCHANGED items
        /\ CacheFrame

\* The rest of Get: the loaded item is checked against the clock.
Get(p) ==
    LET call == cacheRun.get[p]
    IN  /\ call.pc = "loaded"
        /\ IF CacheItemIsExpired(call.item, now)
           THEN /\ items' = DeleteChecked(items, call.key, call.item)
                /\ cacheRun' = [cacheRun EXCEPT !.get[p] = [call EXCEPT !.pc = "done"]]
           ELSE /\ UNCHANGED items
                /\ cacheRun' = [cacheRun EXCEPT !.get[p] =
                                  [call EXCEPT !.pc = "done", !.found = TRUE,
                                               !.data = call.item.data]]
        /\ CacheFrame

\* cleanupExpired: Range hands an entry to the callback; the ticker has just
\* fired, so that the time taken before Range is the present one.
cleanupRange(key) ==
    /\ cacheRun.cleanup.pc = "idle"
    /\ items[key] # NoItem
    /\ cacheRun' = [cacheRun EXCEPT !.cleanup =
                      [pc |-> "loaded", key |-> key, item |-> items[key], at |-> now]]
    /\ UNCHANGED items
    /\ CacheFrame

\* The callback: an entry that had expired when the pass began is deleted.
cleanupExpired ==
    LET pass == cacheRun.cleanup
    IN  /\ pass.pc = "loaded"
        /\ items' = IF CacheItemIsExpired(pass.item, pass.at)
                    THEN DeleteChecked(items, pass.key, pass.item) ELSE items
        /\ cacheRun' = [cacheRun EXCEPT !.cleanup = NoPass]
        /\ CacheFrame

\* Two goroutines read the dashboard statistics while they are set, deleted
\* and cleaned up, as time passes.
NextCache ==
    \/ \E value \in Values : Set("dashboard_stats", value, StatsTTL)
    \/ Delete("dashboard_stats")
    \/ Clear
    \/ \E p \in Procs : GetLoad(p, "dashboard_stats")
    \/ \E p \in Procs : Get(p)
    \/ cleanupRange("dashboard_stats")
    \/ cleanupExpired
    \/ Tick(SessionTTL \div 2)

SpecCache == Init /\ [][NextCache]_vars

\* ------------------------------------------------------- claims
\* What the call reported in last' was made with, read in the state it ran in.
LoginUser(call) == users[CHOOSE id \in UsersByEmail(call.email) : TRUE]
ValidLogin(call) ==
    /\ UsersByEmail(call.email) # {}
    /\ LoginUser(call).enabled
    /\ LoginUser(call).digest = Hash(call.pw)
    /\ ~(LoginUser(call).passwordExpiresAt # NoTime /\ LoginUser(call).passwordExpiresAt < now)
StoredUnexpired(token) == \E s \in sessions : s.token = token /\ ~(s.expiresAt < now)

\* C1: Login with the email and current password of an enabled user whose
\* password has not expired succeeds and returns a token; a GetCurrentUser
\* with that token, made while the session is stored and unexpired and the
\* user is still enabled, returns the user Login returned.
C1_LoginThenResolveSameUser ==
    [][/\ (last'.op = "Login" /\ ValidLogin(last'))
            => /\ last'.res = Ok
               /\ last'.user = LoginUser(last').id
               /\ last'.token # NoToken
               /\ tokenLog'[last'.token].user = last'.user
       /\ (/\ last'.op = "GetCurrentUser"
           /\ tokenLog[last'.token].user # NoUser
           /\ StoredUnexpired(last'.token)
           /\ users[tokenLog[last'.token].user].enabled)
            => /\ last'.res = Ok
               /\ last'.user = tokenLog[last'.token].user]_vars

C1_Witness ==
    /\ last.op = "GetCurrentUser"
    /\ last.res = Ok
    /\ last.user = SalesID
    /\ tokenLog[last.token].user = SalesID

\* C2: Login returns ErrInvalidCredentials for an unknown email, for a
\* disabled user (whatever the password) and for an enabled user with a wrong
\* password; no session is created and exactly one failed_login activity is
\* appended, with no user reference for an unknown email and with the user's
\* id otherwise.
C2_FailedLoginUniform ==
    [][(/\ last'.op = "Login"
        /\ \/ UsersByEmail(last'.email) = {}
           \/ ~LoginUser(last').enabled
           \/ LoginUser(last').digest # Hash(last'.pw))
         => /\ last'.res = ErrInvalidCredentials
            /\ sessions' = sessions
            /\ activities' = Append(activities,
                 [type |-> "failed_login",
                  userID |-> IF UsersByEmail(last'.email) = {} THEN NoUser
                             ELSE LoginUser(last').id])]_vars

C2_Witness ==
    /\ last.op = "Login"
    /\ last.res = ErrInvalidCredentials
    /\ UsersByEmail(last.email) # {}
    /\ ~LoginUser(last).enabled
    /\ LoginUser(last).digest = Hash(last.pw)
    /\ activities[Len(activities)] = [type |-> "failed_login", userID |-> SalesID]

\* C3: once Logout(token) has succeeded, every later GetCurrentUser(token)
\* fails, and a later Logout(token) fails with ErrInvalidSession and changes
\* no table.
C3_LogoutIsFinal ==
    [][/\ (last'.op = "GetCurrentUser" /\ tokenLog[last'.token].ended = "logout")
            => last'.res # Ok
       /\ (last'.op = "Logout" /\ tokenLog[last'.token].ended = "logout")
            => /\ last'.res = ErrInvalidSession
               /\ UNCHANGED <<users, sessions, activities, resetEvents>>]_vars

C3_Witness ==
    /\ last.op = "Logout"
    /\ last.res = ErrInvalidSession
    /\ tokenLog[last.token].ended = "logout"

\* C4: a successful GetCurrentUser(token) at time t sets the session's
\* expiresAt to t + SessionTTL; a GetCurrentUser made less than SessionTTL
\* after the session was created or last resolved succeeds (the session being
\* stored and its user enabled), and one made more than SessionTTL after it
\* fails.
C4_SlidingExpiry ==
    [][(last'.op = "GetCurrentUser" /\ tokenLog[last'.token].usedAt # NoTime)
         => /\ last'.res = Ok
                => \E s \in sessions' : /\ s.token = last'.token
                                        /\ s.expiresAt = now + SessionTTL
            /\ (/\ now - tokenLog[last'.token].usedAt < SessionTTL
                /\ \E s \in sessions : s.token = last'.token
                /\ users[tokenLog[last'.token].user].enabled)
                => last'.res = Ok
            /\ now - tokenLog[last'.token].usedAt > SessionTTL
                => last'.res # Ok]_vars

\* A resolution that succeeds after the expiry the session was created with,
\* and one that fails because the window elapsed.
C4_Witness ==
    /\ last.op = "GetCurrentUser"
    /\ last.res = Ok
    /\ issued = 1
    /\ users[last.user].currentSignInAt + SessionTTL < now

\* C5: a reset token changes the password at most once: once a
\* ResetPasswordWithToken with the token has succeeded (its event is marked
\* successful), every later ResetPasswordWithToken with the same token fails
\* with ErrInvalidResetToken and leaves the users table unchanged.
C5_ResetTokenSingleUse ==
    [][(/\ last'.op = "ResetPasswordWithToken"
        /\ \E i \in DOMAIN resetEvents : /\ resetEvents[i].token = last'.token
                                         /\ resetEvents[i].success)
         => /\ last'.res = ErrInvalidResetToken
            /\ users' = users]_vars

\* C6 (as stated): GetCurrentUser(token) succeeds iff a session row with that
\* token is stored, its expiresAt is in the future and its owner is enabled.
C6_ValidIffFutureExpiry ==
    [][last'.op = "GetCurrentUser"
         => (last'.res = Ok
               <=> \E s \in sessions : /\ s.token = last'.token
                                       /\ s.expiresAt > now
                                       /\ users[s.userID].enabled)]_vars

\* C6 (amended): GetCurrentUser(token) succeeds iff a session row with that
\* token is stored, its expiresAt is not in the past and its owner is
\* enabled, whether or not CleanupExpiredSessions has run.
C6_ValidIffNotPastExpiry ==
    [][last'.op = "GetCurrentUser"
         => (last'.res = Ok
               <=> \E s \in sessions : /\ s.token = last'.token
                                       /\ ~(s.expiresAt < now)
                                       /\ users[s.userID].enabled)]_vars

\* An expired session that the sweep has not deleted is presented and
\* rejected.
C6_Witness ==
    /\ last.op = "GetCurrentUser"
    /\ last.res = ErrInvalidOrExpiredSession
    /\ \E s \in sessions : s.token = last.token /\ s.expiresAt < now

\* C7: GetCurrentUser(token) for a stored, unexpired session of a disabled
\* user fails with ErrUserDisabled, deletes exactly that session row and
\* extends nothing; every later GetCurrentUser(token) fails with
\* ErrInvalidOrExpiredSession, whether or not the user is enabled again.
C7_DisabledUserSessionRevoked ==
    [][/\ (last'.op = "GetCurrentUser")
            => \A s \in sessions :
                 (s.token = last'.token /\ ~(s.expiresAt < now) /\ ~users[s.userID].enabled)
                   => /\ last'.res = ErrUserDisabled
                      /\ sessions' = sessions \ {s}
       /\ (last'.op = "GetCurrentUser" /\ tokenLog[last'.token].ended = "disabled")
            => last'.res = ErrInvalidOrExpiredSession]_vars

\* The token is presented again, within its window, after the user was
\* enabled again.
C7_Witness ==
    /\ last.op = "GetCurrentUser"
    /\ last.res = ErrInvalidOrExpiredSession
    /\ tokenLog[last.token].ended = "disabled"
    /\ users[tokenLog[last.token].user].enabled
    /\ now - tokenLog[last.token].usedAt < SessionTTL

\* C8: Login with the correct password of an enabled user whose
\* passwordExpiresAt is in the past fails with ErrPasswordExpired, which is
\* not ErrInvalidCredentials, creates no session and leaves the users table
\* (the sign-in counters) unchanged; with a wrong password it fails with
\* ErrInvalidCredentials, and ErrPasswordExpired is returned only to a Login
\* that supplied the stored password.
C8_ExpiredPasswordAfterVerification ==
    [][last'.op = "Login"
         => /\ (/\ UsersByEmail(last'.email) # {}
                /\ LoginUser(last').enabled
                /\ LoginUser(last').passwordExpiresAt # NoTime
                /\ LoginUser(last').passwordExpiresAt < now)
                 => IF LoginUser(last').digest = Hash(last'.pw)
                    THEN /\ last'.res = ErrPasswordExpired
                         /\ last'.res # ErrInvalidCredentials
                         /\ sessions' = sessions
                         /\ users' = users
                    ELSE last'.res = ErrInvalidCredentials
            /\ last'.res = ErrPasswordExpired
                 => /\ UsersByEmail(last'.email) # {}
                    /\ LoginUser(last').digest = Hash(last'.pw)]_vars

C8_Witness ==
    /\ last.op = "Login"
    /\ last.res = ErrPasswordExpired
    /\ LoginUser(last).id = SalesID
    /\ LoginUser(last).passwordExpiresAt < now
    /\ LoginUser(last).signInCount = 0
    /\ sessions = {}

\* C9: CanManageUser(actor, target) is decided by the two roles alone: true
\* for every target when the actor is an Admin, true exactly for Salesperson
\* targets when the actor is a Manager, false when the actor is a Salesperson.
C9_CanManageByRole ==
    last.op = "Authorize"
      => verdict.manage = IF actor.role = RoleAdmin THEN TRUE
                          ELSE IF actor.role = RoleManager
                          THEN target.role = RoleSalesperson
                          ELSE FALSE

\* A manager asking about themself.
C9_Witness ==
    /\ last.op = "Authorize"
    /\ actor = target
    /\ actor.role = RoleManager
    /\ ~verdict.manage

\* C10: CanDisableUser(actor, target) holds iff CanManageUser(actor, target)
\* holds, the two ids differ and the target is a Salesperson; so nobody can
\* disable themself, and nobody can disable a Manager or an Admin.
C10_CanDisableRule ==
    last.op = "Authorize"
      => /\ verdict.disable <=> /\ verdict.manage
                                /\ actor.id # target.id
                                /\ target.role = RoleSalesperson
         /\ actor.id = target.id => ~verdict.disable
         /\ target.role \in {RoleAdmin, RoleManager} => ~verdict.disable

\* An admin, who manages every target, asking about a manager.
C10_Witness ==
    /\ last.op = "Authorize"
    /\ actor.role = RoleAdmin
    /\ target.role = RoleManager
    /\ actor.id # target.id
    /\ verdict.manage
    /\ ~verdict.disable

\* C11: RequireRole(token, r) succeeds, returning the session's user, iff
\* GetCurrentUser(token) would succeed (the session is stored, not expired
\* and its owner enabled) and the owner's role is r; RequireRoleOrHigher(token,
\* m) succeeds iff GetCurrentUser(token) would succeed and the owner's role is
\* numerically at most m; every other call returns an error and no user.
C11_RoleChecks ==
    [][last'.op \in {"RequireRole", "RequireRoleOrHigher"}
         => LET owners == {s.userID : s \in {x \in sessions :
                              /\ x.token = last'.token
                              /\ ~(x.expiresAt < now)
                              /\ users[x.userID].enabled}}
                allowed == {id \in owners :
                              IF last'.op = "RequireRole"
                              THEN users[id].role = last'.role
                              ELSE users[id].role <= last'.role}
            IN  /\ last'.res = Ok <=> allowed # {}
                /\ last'.res = Ok => last'.user \in allowed
                /\ last'.res # Ok => last'.user = NoUser]_vars

\* The admin passes a manager-or-higher check, and the salesperson, whose
\* session resolves, is turned away by it.
C11_Witness ==
    /\ last.op = "RequireRoleOrHigher"
    /\ last.role = RoleManager
    /\ last.res = ErrInsufficientPermissions
    /\ \E s \in sessions : /\ s.token = last.token
                           /\ s.userID = SalesID
                           /\ s.expiresAt = now + SessionTTL
    /\ \E s \in sessions : s.userID = AdminID

\* The plaintext a call saved last for the user id, or "" if it saved none.
LastSaved(call, id) ==
    LET at == {i \in DOMAIN call.saved : call.saved[i][1] = id}
    IN  IF at = {} THEN ""
        ELSE call.saved[CHOOSE i \in at : \A j \in at : j <= i][2]

\* C12: a step that sets a user's password (ChangePassword,
\* ResetPasswordWithToken, ManualReset, BulkResetPasswords or a sweep) leaves a
\* digest that verifies the plaintext set last and no other plaintext, in
\* particular not the one that verified before, if it differs; every other
\* step leaves the user's digest as it was.
C12_LastSetPasswordVerifies ==
    [][\A id \in UserIDs :
         IF LastSaved(last', id) = ""
         THEN users'[id].digest = users[id].digest
         ELSE /\ CheckPassword(users'[id], LastSaved(last', id))
              /\ \A q \in AllPasswords :
                   (CheckPassword(users[id], q) /\ q # LastSaved(last', id))
                     => ~CheckPassword(users'[id], q)
              /\ \A q \in AllPasswords :
                   CheckPassword(users'[id], q) => q = LastSaved(last', id)]_vars

\* After a change from the seeded password, a Login with the seeded
\* password is turned away.
C12_Witness ==
    /\ last.op = "Login"
    /\ last.pw = SeedPassword
    /\ last.res = ErrInvalidCredentials
    /\ users[SalesID].enabled
    /\ CheckPassword(users[SalesID], "hunter22")
    /\ \E i \in DOMAIN activities : activities[i].type = "password_change"

\* C15: ChangePassword, once it has loaded the user, fails with InvalidCredentials (the
\* error "current password is incorrect") whenever the current password does
\* not verify, also when the new one is too short; it fails with
\* ErrWeakPassword when the current password verifies and the new one has
\* fewer than MinPasswordLen characters; both failures leave the users table
\* (digest and expiry) and the activity log unchanged.
C15_CurrentCheckedBeforeStrength ==
    [][(last'.op = "ChangePassword" /\ last'.fault # "load")
         => /\ users[last'.user].digest # Hash(last'.pw)
                => /\ last'.res = ErrCurrentPasswordIncorrect
                   /\ UNCHANGED <<users, activities>>
            /\ (/\ users[last'.user].digest = Hash(last'.pw)
                /\ Len(last'.newPw) < MinPasswordLen)
                => /\ last'.res = ErrWeakPassword
                   /\ UNCHANGED <<users, activities>>]_vars

\* A wrong current password together with a new one that is too short.
C15_Witness ==
    /\ last.op = "ChangePassword"
    /\ last.res = ErrCurrentPasswordIncorrect
    /\ Len(last.newPw) < MinPasswordLen
    /\ users[last.user].digest # Hash(last.pw)

\* The calls that set passwords.
PasswordOps ==
    {"ChangePassword", "ResetPasswordWithToken", "ManualReset", "BulkResetPasswords",
     "AutoResetExpiredPasswords", "AutoResetInactiveUsers"}

\* C16: a password-setting call leaves the sessions table as it was, and
\* every session that resolved before it (stored, not expired, owner enabled)
\* resolves after it.
C16_PasswordChangeKeepsSessions ==
    [][last'.op \in PasswordOps
         => /\ sessions' = sessions
            /\ \A s \in sessions :
                 (~(s.expiresAt < now) /\ users[s.userID].enabled)
                   => /\ s \in sessions'
                      /\ ~(s.expiresAt < now')
                      /\ users'[s.userID].enabled]_vars

\* The expiry sweep resets the salesperson, whose session still resolves.
C16_Witness ==
    /\ last.op = "AutoResetExpiredPasswords"
    /\ LastSaved(last, SalesID) # ""
    /\ \E s \in sessions : /\ s.userID = SalesID
                           /\ ~(s.expiresAt < now)
    /\ users[SalesID].enabled

\* C13: a string GenerateStrongPassword returns without error has exactly 8
\* characters, among them an uppercase letter, a lowercase letter, a digit
\* and a symbol, whatever rand.Int returned for the characters and for the
\* shuffle.
C13_StrongPasswordShape ==
    gen.pc = "done"
      => /\ Len(gen.password) = 8
         /\ \E k \in DOMAIN gen.password : gen.password[k] \in {"A", "Z"}
         /\ \E k \in DOMAIN gen.password : gen.password[k] \in {"a", "z"}
         /\ \E k \in DOMAIN gen.password : gen.password[k] \in {"0", "9"}
         /\ \E k \in DOMAIN gen.password : gen.password[k] \in {"!", "?"}

\* A returned string that the shuffle has reordered: the only symbol first,
\* the uppercase letter last.
C13_Witness ==
    /\ gen.pc = "done"
    /\ gen.password[1] = "!"
    /\ gen.password[8] = "A"
    /\ Cardinality({k \in DOMAIN gen.password : gen.password[k] = "!"}) = 1

\* C14: Logout(token) for a session that is stored but whose expiresAt has
\* passed succeeds, deletes that session row and appends one logout activity
\* of the session's user.
C14_LogoutExpiredSession ==
    [][last'.op = "Logout"
         => \A s \in sessions :
              (s.token = last'.token /\ s.expiresAt < now)
                => /\ last'.res = Ok
                   /\ sessions' = sessions \ {s}
                   /\ activities' = Append(activities,
                        [type |-> "logout", userID |-> s.userID])]_vars

\* A logout more than SessionTTL after the session last resolved.
C14_Witness ==
    /\ last.op = "Logout"
    /\ last.res = Ok
    /\ tokenLog[last.token].ended = "logout"
    /\ tokenLog[last.token].usedAt + SessionTTL < now
    /\ activities[Len(activities)] = [type |-> "logout", userID |-> last.user]

\* The reset events a step appended for the user id.
NewEventsFor(id) ==
    {i \in DOMAIN resetEvents' : i > Len(resetEvents) /\ resetEvents'[i].userID = id}

\* C17: in a sweep whose query succeeded, every selected user whose
\* processing did not fail is given a new password and one successful reset
\* event of the sweep's type, also when the processing of another selected
\* user failed (generation, hashing or save); the failing user is skipped,
\* keeping its row and getting no event; the sweep returns no error.
C17_SweepSkipsFailures ==
    [][(/\ last'.op \in {"AutoResetExpiredPasswords", "AutoResetInactiveUsers"}
        /\ last'.fault = "none")
         => LET selected ==
                  IF last'.op = "AutoResetExpiredPasswords"
                  THEN {id \in UserIDs : /\ users[id].passwordExpiresAt # NoTime
                                         /\ users[id].passwordExpiresAt < now}
                  ELSE {id \in UserIDs : /\ users[id].lastSignInAt # NoTime
                                         /\ users[id].lastSignInAt < now - InactivityTTL}
                resetType == IF last'.op = "AutoResetExpiredPasswords"
                             THEN "automatic_expiry" ELSE "automatic_inactivity"
            IN  /\ last'.res = Ok
                /\ DOMAIN last'.faults = selected
                /\ SubSeq(resetEvents', 1, Len(resetEvents)) = resetEvents
                /\ \A id \in UserIDs :
                     IF id \in selected /\ last'.faults[id] = "none"
                     THEN /\ \E p \in StrongPasswords : CheckPassword(users'[id], p)
                          /\ users'[id].passwordExpiresAt = now + PasswordTTL
                          /\ Cardinality(NewEventsFor(id)) = 1
                          /\ \A i \in NewEventsFor(id) :
                               /\ resetEvents'[i].success
                               /\ resetEvents'[i].resetType = resetType
                     ELSE IF id \in selected /\ last'.faults[id] = "event"
                     THEN NewEventsFor(id) = {}
                     ELSE /\ users'[id] = users[id]
                          /\ NewEventsFor(id) = {}]_vars

\* The save of the salesperson fails; the admin, processed after it, has a
\* new password and its event.
C17_Witness ==
    /\ last.op = "AutoResetExpiredPasswords"
    /\ last.res = Ok
    /\ DOMAIN last.faults = UserIDs
    /\ last.faults[SalesID] = "save"
    /\ last.faults[AdminID] = "none"
    /\ CheckPassword(users[SalesID], SeedPassword)
    /\ ~CheckPassword(users[AdminID], SeedPassword)
    /\ resetEvents # <<>>
    /\ resetEvents[Len(resetEvents)].userID = AdminID

\* C18: BulkResetPasswords returns no error and a map whose keys are exactly
\* the ids whose ManualReset succeeded, each mapped to the plaintext that
\* verifies as that user's password when the call returns; an id whose reset
\* failed is left out, and the ids after it are still processed.
C18_BulkResultsAreCurrent ==
    [][last'.op = "BulkResetPasswords"
         => /\ last'.res = Ok
            /\ {x[1] : x \in last'.results} = last'.succeeded
            /\ \A x, y \in last'.results : x[1] = y[1] => x = y
            /\ \A i \in DOMAIN last'.ids :
                 (last'.ids[i] \in UserIDs /\ last'.faults[i] = "none")
                   => last'.ids[i] \in last'.succeeded
            /\ \A x \in last'.results : CheckPassword(users'[x[1]], x[2])]_vars


\* C19: when only the write of the activity record fails, Login with good
\* credentials, Logout of a stored session, ChangePassword with the right
\* current password and an acceptable new one, ResetPasswordWithToken with a
\* live token and an acceptable password, and ManualReset of a stored user
\* each return success; the session is created or destroyed, or the new
\* password verifies, and the activity table is as it was.
C19_AuditLogBestEffort ==
    [][last'.fault = "log"
         => /\ activities' = activities
            /\ (/\ last'.op = "Login"
                /\ \E id \in UsersByEmail(last'.email) :
                     /\ users[id].enabled
                     /\ CheckPassword(users[id], last'.pw)
                     /\ ~IsPasswordExpired(users[id]))
                 => /\ last'.res = Ok
                    /\ \E s \in sessions' \ sessions :
                         s.token = last'.token /\ s.userID = last'.user
            /\ (last'.op = "Logout" /\ GetSessionByToken(last'.token) # {})
                 => /\ last'.res = Ok
                    /\ \A s \in sessions' : s.token # last'.token
            /\ (/\ last'.op = "ChangePassword"
                /\ CheckPassword(users[last'.user], last'.pw)
                /\ ValidatePassword(last'.newPw) = Ok)
                 => /\ last'.res = Ok
                    /\ CheckPassword(users'[last'.user], last'.newPw)
            /\ (/\ last'.op = "ResetPasswordWithToken"
                /\ ResetEventsByToken(last'.token) # {}
                /\ ValidatePassword(last'.pw) = Ok)
                 => /\ last'.res = Ok
                    /\ CheckPassword(users'[last'.user], last'.pw)
                    /\ \E i \in ResetEventsByToken(last'.token) :
                         resetEvents'[i].success
            /\ (last'.op = "ManualReset" /\ last'.user \in UserIDs)
                 => /\ last'.res = Ok
                    /\ CheckPassword(users'[last'.user], last'.newPw)
                    /\ NewEventsFor(last'.user) # {}]_vars

\* A sign-in whose activity write failed: the session is stored and no
\* activity row was ever written.
C19_Witness ==
    /\ last.op = "Login"
    /\ last.fault = "log"
    /\ last.res = Ok
    /\ \E s \in sessions : s.token = last.token /\ s.userID = last.user
    /\ activities = <<>>


\* C20: a Login that returns an internal error because GenerateSecureToken or
\* the session insert failed in CreateSession leaves the users table (hence
\* lastSignInAt, currentSignInAt and signInCount) and the sessions table as
\* they were.
C20_FailedLoginLeavesNoTrace ==
    [][(/\ last'.op = "Login"
        /\ last'.fault \in {"token", "session"}
        /\ last'.res = ErrInternal)
         => UNCHANGED <<users, sessions>>]_vars


\* C21: a ManualReset or ResetPasswordWithToken that returns an error leaves
\* every user's stored digest as it was before the call.
C21_FailedResetKeepsPassword ==
    [][(/\ last'.op \in {"ManualReset", "ResetPasswordWithToken"}
        /\ last'.res # Ok)
         => \A id \in UserIDs : users'[id].digest = users[id].digest]_vars


\* C22: after every step no two session rows and no two reset events hold
\* the same token; a CreateSession or CreateResetEvent whose token a stored
\* row already holds when its insert runs returns an error and adds no row,
\* whatever the other goroutine is doing.
C22_TokensAreUnique ==
    [][/\ \A s, t \in sessions' : s.token = t.token => s = t
       /\ \A i, j \in DOMAIN resetEvents' :
            (i # j /\ resetEvents'[i].token # NoToken)
              => resetEvents'[i].token # resetEvents'[j].token
       /\ \A p \in Procs :
            (/\ flight[p].op = "CreateSession"
             /\ flight'[p] = Idle
             /\ flight[p].token \in SessionTokens)
              => last'.res # Ok /\ sessions' = sessions
       /\ \A p \in Procs :
            (/\ flight[p].op = "CreateResetEvent"
             /\ flight'[p] = Idle
             /\ flight[p].token \in ResetTokens)
              => last'.res # Ok /\ resetEvents' = resetEvents]_vars

\* A CreateSession refused because a session of another user holds the token
\* it drew.
C22_Witness ==
    /\ last.op = "CreateSession"
    /\ last.res = ErrDuplicateKey
    /\ \E s \in sessions : /\ s.token = last.token
                           /\ s.userID # last.user


\* C23: once Logout(token) has succeeded and no GetCurrentUser(token) is in
\* flight any more, no session row holds the token, so GetCurrentUser(token)
\* fails from then on.
C23_LogoutIsFinal ==
    \A token \in Tokens :
        (/\ tokenLog[token].ended = "logout"
         /\ \A p \in Procs : flight[p].token # token)
          => GetSessionByToken(token) = {}


\* C24: the write-back of a Login that read its user earlier leaves the
\* user's enabled flag and digest as they are stored when it writes, so a
\* disabling or a password change committed since the read is not undone.
C24_WriteBackKeepsOtherColumns ==
    [][\A p \in Procs :
         (flight[p].op = "Login" /\ flight'[p] = Idle)
           => \A u \in flight[p].user :
                /\ users'[u.id].enabled = users[u.id].enabled
                /\ users'[u.id].digest = users[u.id].digest]_vars


\* The calls by which a signed-in user resets another user's password.
ResetEndpoints == {"ResetPassword", "HandleResetPassword", "BulkResetPasswords"}

\* C26: a reset endpoint called by current user A leaves the digest of every
\* user T for whom CanManageUser(A, T) fails as it was and records no reset
\* event for T.
C26_ResetsNeedCanManage ==
    [][last'.op \in ResetEndpoints
         => \A t \in DOMAIN users :
              ~CanManageUser(users[last'.user], users[t])
                => /\ users'[t].digest = users[t].digest
                   /\ NewEventsFor(t) = {}]_vars


\* The handlers that create and edit users.
CrudOps == {"CreateUser", "UpdateUser", "HandleCreateUser", "HandleEditUser"}

\* C25: when the current user of a create or edit request is a manager,
\* every row the request adds has the role Salesperson, every stored row
\* whose role the request changes has it afterwards, and a request that asks
\* for another role is turned down and leaves the users table as it was.
C25_ManagerAssignsOnlySalesperson ==
    [][(last'.op \in CrudOps /\ users[last'.user].role = RoleManager)
         => /\ \A id \in DOMAIN users' \ DOMAIN users :
                 users'[id].role = RoleSalesperson
            /\ \A id \in DOMAIN users :
                 users'[id].role # users[id].role => users'[id].role = RoleSalesperson
            /\ last'.role \notin {NoRole, RoleSalesperson}
                 => last'.res # Ok /\ users' = users]_vars

\* The manager was turned down when asking for a new manager, after having
\* created a salesperson.
C25_Witness ==
    /\ last.op \in {"CreateUser", "HandleCreateUser"}
    /\ last.user = ManagerID
    /\ last.role = RoleManager
    /\ last.res = ErrManagersOnlySalespeople
    /\ \E id \in DOMAIN users \ StaffIDs : users[id].role = RoleSalesperson
    /\ \A id \in DOMAIN users \ StaffIDs : users[id].role = RoleSalesperson


\* C27: the status and body RequestPasswordReset answers with are the ones
\* it would have answered with, in the same state, for every other email:
\* one with no account, one of a disabled and one of an enabled account.
C27_ResetRequestAnswersAlike ==
    [][last'.op = "RequestPasswordReset"
         => \A email \in RequestEmails :
              LET other == RequestPasswordResetAnswer(email, "none")
              IN  /\ last'.status = other.status
                  /\ last'.res = other.message
                  /\ (last'.token = NoToken) = (other.token = NoToken)]_vars


\* C28: after every create, update and sign-in each stored email is its own
\* normalized form and no two users share an email; and what a Login
\* returns is what it returns in the same state for every spelling with the
\* same normalized form.
C28_EmailsNormalizedAndUnique ==
    [][/\ \A id \in DOMAIN users' : users'[id].email = normalizeEmail(users'[id].email)
       /\ \A i, j \in DOMAIN users' : i # j => users'[i].email # users'[j].email
       /\ last'.op = "Login"
            => \A email \in EmailSpellings :
                 normalizeEmail(email) = normalizeEmail(last'.email)
                   => last'.res = LoginOutcome(email, last'.pw)]_vars

\* The salesperson, whose email was changed to a spelling with a blank and
\* a capital, has signed in under that spelling; the row holds the
\* normalized form.
C28_Witness ==
    /\ last.op = "Login"
    /\ last.email = <<" ", "Z">>
    /\ last.res = Ok
    /\ last.user = SalesID
    /\ users[SalesID].email = <<"z">>


\* C29: SetPassword with a plaintext of fewer than MinPasswordLen characters
\* returns ErrWeakPassword and leaves digest, passwordResetAt and
\* passwordExpiresAt as they were; with any other plaintext it stores a
\* digest that verifies the plaintext, passwordResetAt = now and
\* passwordExpiresAt = now + PasswordTTL.
C29_SetPasswordValidates ==
    [][last'.op = "SetPassword"
         => LET before == users[last'.user]
                after == users'[last'.user]
            IN  IF Len(last'.pw) < MinPasswordLen
                THEN /\ last'.res = ErrWeakPassword
                     /\ after.digest = before.digest
                     /\ after.passwordResetAt = before.passwordResetAt
                     /\ after.passwordExpiresAt = before.passwordExpiresAt
                ELSE /\ last'.res = Ok
                     /\ CheckPassword(after, last'.pw)
                     /\ after.passwordResetAt = now
                     /\ after.passwordExpiresAt = now + PasswordTTL]_vars


\* C30: a Login that succeeds sets the user's lastSignInAt to the former
\* currentSignInAt, currentSignInAt to now and signInCount one higher, adds
\* exactly one session, owned by the user and expiring at now + SessionTTL,
\* and appends exactly one login activity; a Login that fails leaves the
\* three sign-in fields of every user and the sessions table as they were.
C30_LoginBookkeeping ==
    [][last'.op = "Login"
         => IF last'.res = Ok
            THEN LET before == users[last'.user]
                     after == users'[last'.user]
                 IN  /\ after.lastSignInAt = before.currentSignInAt
                     /\ after.currentSignInAt = now
                     /\ after.signInCount = before.signInCount + 1
                     /\ sessions \subseteq sessions'
                     /\ sessions' \ sessions =
                          {[token |-> last'.token, userID |-> last'.user,
                            expiresAt |-> now + SessionTTL]}
                     /\ [token |-> last'.token, userID |-> last'.user,
                         expiresAt |-> now + SessionTTL] \notin sessions
                     /\ activities' = Append(activities,
                                             [type |-> "login", userID |-> last'.user])
            ELSE /\ \A id \in DOMAIN users :
                      /\ users'[id].lastSignInAt = users[id].lastSignInAt
                      /\ users'[id].currentSignInAt = users[id].currentSignInAt
                      /\ users'[id].signInCount = users[id].signInCount
                 /\ sessions' = sessions]_vars


\* What a ManualReset that returned no error has done: the returned plaintext
\* is the only one that verifies as the target's password, the other rows of
\* the users table are as they were, the reset events gained one row (manual,
\* successful, by the administrator, without a token), and the activities
\* gained the rows written (none, or one user_crud row of the administrator).
ManualResetDone(written) ==
    /\ last'.newPw \in StrongPasswords
    /\ \A pw \in AllPasswords :
         CheckPassword(users'[last'.user], pw) <=> pw = last'.newPw
    /\ \A id \in UserIDs \ {last'.user} : users'[id] = users[id]
    /\ resetEvents' = Append(resetEvents,
                             [userID |-> last'.user, adminID |-> AdminID,
                              success |-> TRUE, resetType |-> "manual",
                              token |-> NoToken, expiresAt |-> NoTime])
    /\ activities' = activities \o
                       [i \in 1..written |-> [type |-> "user_crud", userID |-> AdminID]]

\* C31 as stated: every ManualReset by the administrator that returns no
\* error replaces the password with the returned plaintext, adds one manual
\* reset event and appends exactly one user_crud activity of the
\* administrator.
C31_ManualResetLogsOnce ==
    [][(last'.op = "ManualReset" /\ last'.res = Ok) => ManualResetDone(1)]_vars

\* C31, amended: every ManualReset by the administrator that returns no error
\* replaces the password with the returned plaintext and adds one manual reset
\* event; it appends exactly one user_crud activity of the administrator,
\* unless the write of that activity failed, and then none.
C31_ManualResetEffects ==
    [][(last'.op = "ManualReset" /\ last'.res = Ok)
         => ManualResetDone(IF last'.fault = "log" THEN 0 ELSE 1)]_vars

\* The administrator has reset the salesperson's password: the seeded
\* password no longer verifies, the event and the activity are the last rows.
C31_Witness ==
    /\ last.op = "ManualReset"
    /\ last.res = Ok
    /\ last.fault = "none"
    /\ last.user = SalesID
    /\ CheckPassword(users[SalesID], last.newPw)
    /\ ~CheckPassword(users[SalesID], SeedPassword)
    /\ resetEvents # <<>>
    /\ resetEvents[Len(resetEvents)].adminID = AdminID
    /\ resetEvents[Len(resetEvents)].resetType = "manual"
    /\ activities # <<>>
    /\ activities[Len(activities)] = [type |-> "user_crud", userID |-> AdminID]


\* C32: AutoResetExpiredPasswords gives a new generated password to exactly
\* the users whose passwordExpiresAt is set and earlier than now, and leaves
\* every other user's row as it was; for each user it resets it appends one
\* reset event (automatic_expiry, successful, without token and without
\* administrator) and sets passwordExpiresAt to now + PasswordTTL, so that no
\* user is selected by a run in the state it leaves; a run that selects no
\* user changes neither table.
C32_ExpirySweepResetsTheExpired ==
    [][last'.op = "AutoResetExpiredPasswords"
         => LET expired == {id \in UserIDs : /\ users[id].passwordExpiresAt # NoTime
                                             /\ users[id].passwordExpiresAt < now}
            IN  /\ last'.res = Ok
                /\ SubSeq(resetEvents', 1, Len(resetEvents)) = resetEvents
                /\ Len(resetEvents') = Len(resetEvents) + Cardinality(expired)
                /\ \A id \in UserIDs :
                     IF id \in expired
                     THEN /\ \E pw \in StrongPasswords :
                               users'[id] = SetPassword(users[id], pw)
                          /\ users'[id].passwordExpiresAt = now' + PasswordTTL
                          /\ \E i \in DOMAIN resetEvents' :
                               NewEventsFor(id) = {i}
                                 /\ resetEvents'[i] =
                                      [userID |-> id, adminID |-> NoUser,
                                       success |-> TRUE,
                                       resetType |-> "automatic_expiry",
                                       token |-> NoToken, expiresAt |-> NoTime]
                     ELSE /\ users'[id] = users[id]
                          /\ NewEventsFor(id) = {}
                /\ \A id \in UserIDs :
                     ~(/\ users'[id].passwordExpiresAt # NoTime
                       /\ users'[id].passwordExpiresAt < now')
                /\ expired = {} => UNCHANGED <<users, resetEvents>>]_vars

\* The sweep has reset the administrator, whose password had expired, and
\* not the salesperson, who had changed the password in time.
C32_Witness ==
    /\ last.op = "AutoResetExpiredPasswords"
    /\ last.res = Ok
    /\ Len(last.saved) = 1
    /\ last.saved[1][1] = AdminID
    /\ CheckPassword(users[AdminID], last.saved[1][2])
    /\ users[AdminID].passwordExpiresAt = now + PasswordTTL
    /\ CheckPassword(users[SalesID], "hunter22")
    /\ users[SalesID].passwordExpiresAt < now + PasswordTTL
    /\ \E i \in DOMAIN resetEvents :
         resetEvents[i].userID = AdminID /\ resetEvents[i].resetType = "automatic_expiry"


\* The reset events that hold the token and expire after now.
LiveEvents(token) ==
    {i \in DOMAIN resetEvents : /\ resetEvents[i].token = token
                                /\ resetEvents[i].expiresAt > now}

\* C33: CreateResetEvent stores an unsuccessful event that expires
\* ResetTokenTTL after its creation. ResetPasswordWithToken returns
\* ErrInvalidResetToken when no stored event holds the token or the one that
\* does has expiresAt <= now, and ErrWeakPassword when the event is live and
\* the new password has fewer than MinPasswordLen characters; both failures
\* leave the users and the reset events as they were. With a live event and an
\* acceptable password it succeeds, in particular right after a failure for a
\* weak password with the same token.
C33_ResetRejections ==
    [][/\ last'.op = "CreateResetEvent"
          => resetEvents' = Append(resetEvents,
                                   [resetEvents'[Len(resetEvents')]
                                      EXCEPT !.success = FALSE,
                                             !.token = last'.token,
                                             !.expiresAt = now + ResetTokenTTL])
       /\ last'.op = "ResetPasswordWithToken"
          => /\ LiveEvents(last'.token) = {}
                => /\ last'.res = ErrInvalidResetToken
                   /\ UNCHANGED <<users, resetEvents>>
             /\ (LiveEvents(last'.token) # {} /\ Len(last'.pw) < MinPasswordLen)
                => /\ last'.res = ErrWeakPassword
                   /\ UNCHANGED <<users, resetEvents>>
             /\ (LiveEvents(last'.token) # {} /\ Len(last'.pw) >= MinPasswordLen)
                => /\ last'.res = Ok
                   /\ CheckPassword(users'[last'.user], last'.pw)
                   /\ \E i \in LiveEvents(last'.token) :
                        resetEvents[i].userID = last'.user /\ resetEvents'[i].success
             /\ (/\ last.op = "ResetPasswordWithToken"
                 /\ last.res = ErrWeakPassword
                 /\ last'.token = last.token
                 /\ Len(last'.pw) >= MinPasswordLen)
                => /\ last'.res = Ok
                   /\ CheckPassword(users'[last'.user], last'.pw)]_vars

\* The pending token has just run out (expiresAt = now): presenting it with
\* an acceptable password was turned away, the password is the seeded one and
\* the event is still unsuccessful.
C33_Witness ==
    /\ last.op = "ResetPasswordWithToken"
    /\ last.res = ErrInvalidResetToken
    /\ Len(last.pw) >= MinPasswordLen
    /\ \E i \in DOMAIN resetEvents :
         /\ resetEvents[i].token = last.token
         /\ resetEvents[i].expiresAt = now
         /\ ~resetEvents[i].success
         /\ CheckPassword(users[resetEvents[i].userID], SeedPassword)


\* C34: DestroySession(token) returns no error and deletes the session with
\* that token and no other, so none when no session holds the token;
\* DestroyUserSessions(userId) deletes the sessions whose owner is userId and
\* no other; CleanupExpiredSessions deletes the sessions with expiresAt < now
\* and no other; the sessions that stay are unchanged, no other table is
\* written, and a stored, unexpired session of an enabled user resolves
\* whatever was deleted before.
C34_DeletionsAreExact ==
    [][/\ last'.op = "DestroySession"
          => /\ last'.res = Ok
             /\ sessions' = {s \in sessions : s.token # last'.token}
             /\ (\A s \in sessions : s.token # last'.token) => sessions' = sessions
       /\ last'.op = "DestroyUserSessions"
          => /\ last'.res = Ok
             /\ sessions' = {s \in sessions : s.userID # last'.user}
       /\ last'.op = "CleanupExpiredSessions"
          => /\ last'.res = Ok
             /\ sessions' = {s \in sessions : ~(s.expiresAt < now)}
       /\ last'.op \in {"DestroySession", "DestroyUserSessions", "CleanupExpiredSessions"}
          => UNCHANGED <<users, activities, resetEvents>>
       /\ (/\ last'.op = "GetCurrentUser"
           /\ \E s \in sessions : /\ s.token = last'.token
                                  /\ ~(now > s.expiresAt)
                                  /\ users[s.userID].enabled)
          => /\ last'.res = Ok
             /\ \E s \in sessions : s.token = last'.token /\ s.userID = last'.user]_vars

\* The salesperson signed in twice; one of the two sessions has been
\* destroyed by its token and the other is still stored.
C34_Witness ==
    /\ last.op = "DestroySession"
    /\ tokenLog[last.token].user = SalesID
    /\ \A s \in sessions : s.token # last.token
    /\ \E s \in sessions : s.userID = SalesID /\ ~(now > s.expiresAt)


C36_RecentLoginIsSpared ==
    [][last'.op = "AutoResetInactiveUsers"
         => \A id \in UserIDs :
              (/\ users[id].currentSignInAt # NoTime
               /\ users[id].currentSignInAt >= now - InactivityTTL)
                => users'[id].digest = users[id].digest]_vars


\* The users whose lastSignInAt is set and more than InactivityTTL before now.
LongAbsent(tbl, at) ==
    {id \in UserIDs : /\ tbl[id].lastSignInAt # NoTime
                      /\ tbl[id].lastSignInAt < at - InactivityTTL}

\* C37: a run of AutoResetInactiveUsers in which nothing fails gives every
\* user it selects a new generated password and one more automatic_inactivity
\* event and changes nothing else of the row, lastSignInAt included, so that
\* the user is selected again in the state the run leaves; and no step other
\* than a Login takes a user out of the selection.
C37_InactivitySweepRepeats ==
    [][/\ last'.op = "AutoResetInactiveUsers"
          => \A id \in LongAbsent(users, now) :
               /\ \E pw \in StrongPasswords : users'[id] = SetPassword(users[id], pw)
               /\ users'[id].lastSignInAt = users[id].lastSignInAt
               /\ id \in LongAbsent(users', now')
               /\ \E i \in DOMAIN resetEvents' :
                    /\ NewEventsFor(id) = {i}
                    /\ resetEvents'[i].resetType = "automatic_inactivity"
                    /\ resetEvents'[i].success
       /\ last'.op # "Login" => LongAbsent(users, now) \subseteq LongAbsent(users', now')]_vars

\* Two runs in a row have reset the salesperson, each with its own password
\* and its own event; the row still holds the sign-in times it started with.
C37_Witness ==
    /\ last.op = "AutoResetInactiveUsers"
    /\ Len(resetEvents) = 2
    /\ \A i \in DOMAIN resetEvents :
         /\ resetEvents[i].userID = SalesID
         /\ resetEvents[i].resetType = "automatic_inactivity"
    /\ users[SalesID].lastSignInAt = 0 - InactivityTTL - 2
    /\ users[SalesID].signInCount = 2
    /\ CheckPassword(users[SalesID], last.saved[1][2])


\* C38: HandleToggleStatus leaves the sessions table as it was; a
\* GetCurrentUser that finds the owner disabled deletes the session whose
\* token it was given and no other; and a stored session that has not expired
\* resolves whenever its owner is enabled, also when the owner was disabled
\* and another session of the same user was deleted for it in between.
C38_DisablingKeepsOtherSessions ==
    [][/\ last'.op = "HandleToggleStatus" => sessions' = sessions
       /\ (last'.op = "GetCurrentUser" /\ last'.res = ErrUserDisabled)
          => /\ sessions' = {s \in sessions : s.token # last'.token}
             /\ \E s \in sessions : s.token = last'.token /\ ~users[s.userID].enabled
       /\ (/\ last'.op = "GetCurrentUser"
           /\ \E s \in sessions : /\ s.token = last'.token
                                  /\ ~(now > s.expiresAt)
                                  /\ users[s.userID].enabled)
          => /\ last'.res = Ok
             /\ \E s \in sessions' : s.token = last'.token /\ s.userID = last'.user]_vars

\* The salesperson held two sessions and was disabled; one session was
\* presented and deleted; re-enabled, the salesperson is resolved by the
\* other one.
C38_Witness ==
    /\ last.op = "GetCurrentUser"
    /\ last.res = Ok
    /\ last.user = SalesID
    /\ users[SalesID].enabled
    /\ \E t \in Tokens \ {last.token} :
         /\ tokenLog[t].user = SalesID
         /\ tokenLog[t].ended = "disabled"
         /\ \A s \in sessions : s.token # t
    /\ \E s \in sessions : s.token = last.token /\ s.userID = SalesID


\* C39: every stored user that is not enabled has the role Salesperson.
C39_OnlySalespeopleDisabled ==
    \A id \in DOMAIN users : ~users[id].enabled => users[id].role = RoleSalesperson


\* C40: a Get(key) that begins after a Set(key, v, ttl) has completed, with
\* no Delete(key), Clear or later Set(key) since, and that ends before the
\* entry's expiresAt, returns v.
C40_GetReturnsWhatWasSet ==
    [][\A p \in Procs :
         LET call == cacheRun'.get[p]
         IN  (/\ call # cacheRun.get[p]
              /\ call.pc = "done"
              /\ call.promised # NoItem
              /\ call.promised = cacheRun.set[call.key]
              /\ now < call.promised.expiresAt)
               => (call.found /\ call.data = call.promised.data)]_vars

====
